---------------------------- MODULE Spec2Model ----------------------------
(***************************************************************************)
(* Tree-integrity checker of the gollvm bridge (class IntegrityVisitor,    *)
(* go-llvm-tree-integrity.cpp).  The IR node arena is a function from node *)
(* identities to node records; the visitor's fields are the variables      *)
(* nparent_, iparent_, sharing_, the three share counters and the log ss_. *)
(***************************************************************************)
EXTENDS Integers, Sequences, FiniteSets, TLC

VARIABLES
  nodes,            \* node arena: identity -> [stmt, flavor, op, modscope, kids, insts]
  numInsts,         \* number of instruction handles allocated so far
  control,          \* TreeIntegCtl of the visitor: [visitMode, doRepairs]
  nparent_,         \* tracked node -> <<parent, slot>>
  iparent_,         \* instruction -> <<parent, slot>>
  sharing_,         \* set of <<parent, slot>>
  instShareCount_,
  stmtShareCount_,
  exprShareCount_,
  ss_,              \* diagnostic log: sequence of conflict records
  checksEnabled,    \* nodeBuilder().integrityChecksEnabled()
  aborted,          \* an assert() of the checker failed
  calls,            \* number of checker operations performed so far
  lastOp,           \* the operation performed by the last step, with its result
  passes,           \* the examine calls made so far: [control, node, ret]; in
                    \* SpecDetach the edge calls made so far: [op, loc]
  frame,            \* activation of repair in progress: disabler, entries left, visited;
                    \* in SpecWalk the activation of repairableSubTree (work list,
                    \* visited set, nodes popped) or of visit (call stack)
  prev              \* arena and visitor fields as they were before that operation

vars == <<nodes, numInsts, control, nparent_, iparent_, sharing_,
          instShareCount_, stmtShareCount_, exprShareCount_, ss_,
          checksEnabled, aborted, calls, lastOp, passes, frame, prev>>

----------------------------------------------------------------------------
(* Bounds of the model *)

MaxNodes == 4      \* nodes of the tree handed to the checker
MaxKids  == 2      \* children per node
MaxCalls == 2      \* checker operations per behaviour
MaxInsts == 1      \* instruction handles attached by the front end
MaxInstSlots == 2  \* instructions per expression
MaxEdgeNodes == 3  \* nodes of the trees whose edges are recorded one by one
MaxEdgeOps == 3    \* edge operations per behaviour
MaxPassNodes == 3  \* nodes of the trees checked by several passes
MaxClassifyNodes == 3  \* nodes of the expression graphs handed to the classifier
MaxRepairNodes == 3  \* nodes of the trees repaired step by step
MaxRepairCalls == 2  \* front-end and checker calls per behaviour of SpecRepair
MaxDetachNodes == 3  \* nodes of the trees whose children are reparented
MaxDetachOps == 4    \* setParent and unsetParent calls per behaviour of SpecDetach
MaxWalkNodes == 3    \* nodes of the trees traversed one step at a time

----------------------------------------------------------------------------
(* Node model *)

BatchMode == "BatchMode"
IncrementalMode == "IncrementalMode"
DontReportRepairableSharing == "DontReportRepairableSharing"
ReportRepairableSharing == "ReportRepairableSharing"

Controls == [visitMode : {BatchMode, IncrementalMode},
             doRepairs : {DontReportRepairableSharing, ReportRepairableSharing}]

NodeIds == DOMAIN nodes

children(h, n) == h[n].kids
instructions(h, n) == h[n].insts
isStmt(h, n) == h[n].stmt
isExpr(h, n) == ~h[n].stmt

\* (parent, slot) locations of the arena; slots are numbered from 0
Locs(h) == {<<p, s>> \in (DOMAIN h) \X (0 .. MaxKids) : s < Len(h[p].kids)}
childAt(h, ps) == h[ps[1]].kids[ps[2] + 1]

ILocs(h) == {<<p, s>> \in (DOMAIN h) \X (0 .. MaxInstSlots) : s < Len(h[p].insts)}
instAt(h, ps) == h[ps[1]].insts[ps[2] + 1]

RECURSIVE ReachFrom(_, _, _)
ReachFrom(h, frontier, seen) ==
  IF frontier = {} THEN seen
  ELSE LET nxt == UNION {{h[n].kids[i] : i \in 1 .. Len(h[n].kids)} : n \in frontier}
       IN ReachFrom(h, nxt \ seen, seen \cup nxt)

\* the nodes of the subtree rooted at n, n included
Subtree(h, n) == ReachFrom(h, {n}, {n})


----------------------------------------------------------------------------
(* Parent tracking and conflict detection *)

\* the visitor's fields as one value, threaded through the traversal
VState == [nparent |-> nparent_, iparent |-> iparent_, sharing |-> sharing_,
           instShareCount |-> instShareCount_, stmtShareCount |-> stmtShareCount_,
           exprShareCount |-> exprShareCount_, ss |-> ss_, aborted |-> aborted]

\* the state a newly constructed visitor starts in
FreshV == [nparent |-> <<>>, iparent |-> <<>>, sharing |-> {},
           instShareCount |-> 0, stmtShareCount |-> 0, exprShareCount |-> 0,
           ss |-> <<>>, aborted |-> FALSE]

MapPut(f, k, v) == [x \in (DOMAIN f) \cup {k} |-> IF x = k THEN v ELSE f[x]]
MapErase(f, k) == [x \in (DOMAIN f) \ {k} |-> f[x]]

moduleScopeValue(h, n) == h[n].modscope

\* mutant: module-scope values are tracked like any other node
shouldBeTracked_Always(h, child) == TRUE

\* mutant: the two return values are swapped
shouldBeTracked_Inverted(h, child) == isExpr(h, child) /\ moduleScopeValue(h, child)

shouldBeTracked(h, child) ==
  ~(isExpr(h, child) /\ moduleScopeValue(h, child))

\* mutant: struct-field access is missing from the whitelist
acceptable_NoStructField == {"N_Const", "N_Var", "N_Conversion", "N_Deref", "N_BinaryOp"}

acceptable == {"N_Const", "N_Var", "N_Conversion", "N_Deref", "N_StructField",
               "N_BinaryOp"}

\* mutant: any binary operator is accepted
RECURSIVE repairableLoop_AnyOp(_, _, _)
repairableLoop_AnyOp(h, workList, visited) ==
  IF workList = <<>> THEN TRUE
  ELSE LET e == workList[Len(workList)]
           rest == SubSeq(workList, 1, Len(workList) - 1)
       IN IF h[e].flavor \notin acceptable THEN FALSE
          ELSE LET new == {h[e].kids[i] : i \in 1 .. Len(h[e].kids)} \ visited
                   RECURSIVE seqOf(_)
                   seqOf(S) == IF S = {} THEN <<>>
                               ELSE LET x == CHOOSE y \in S : TRUE
                                    IN <<x>> \o seqOf(S \ {x})
               IN repairableLoop_AnyOp(h, rest \o seqOf(new), visited \cup new)

\* the worklist loop of repairableSubTree.  Every expression of the arena has
\* only expressions as children (WellFormed), so assert(ce) holds.
RECURSIVE repairableLoop(_, _, _)
repairableLoop(h, workList, visited) ==
  IF workList = <<>> THEN TRUE
  ELSE LET e == workList[Len(workList)]
           rest == SubSeq(workList, 1, Len(workList) - 1)
       IN IF h[e].flavor \notin acceptable THEN FALSE
          ELSE IF h[e].flavor = "N_BinaryOp"
                  /\ h[e].op # "OPERATOR_PLUS" /\ h[e].op # "OPERATOR_MINUS" THEN FALSE
          ELSE LET RECURSIVE push(_, _, _)
                   push(i, wl, vs) ==
                     IF i > Len(h[e].kids) THEN <<wl, vs>>
                     ELSE LET ce == h[e].kids[i]
                          IN IF ce \notin vs
                             THEN push(i + 1, Append(wl, ce), vs \cup {ce})
                             ELSE push(i + 1, wl, vs)
                   r == push(1, rest, visited)
               IN repairableLoop(h, r[1], r[2])

repairableSubTree(h, root) == repairableLoop(h, <<root>>, {root})

Diag(wh, child, prevParent, parent) ==
  [wh |-> wh, child |-> child, parent1 |-> prevParent, parent2 |-> parent]

\* mutant: a conflict of a repairable expression is logged but not counted
setParent_LogOnly(h, ctl, V, child, parent, slot) ==
  IF ~shouldBeTracked(h, child) THEN V
  ELSE IF child \in DOMAIN V.nparent THEN
    LET pps == V.nparent[child]
        ps == <<parent, slot>>
    IN IF pps = ps THEN V
       ELSE IF h[child].flavor = "N_Error" THEN V
       ELSE IF ps \in V.sharing THEN V
       ELSE LET V1 == [V EXCEPT !.sharing = @ \cup {ps}]
            IN IF isExpr(h, child) /\ ctl.doRepairs = DontReportRepairableSharing
                  /\ repairableSubTree(h, child) THEN V1
               ELSE IF isStmt(h, child)
                    THEN [V1 EXCEPT !.stmtShareCount = @ + 1,
                                    !.ss = Append(@, Diag("stmt", child, pps[1], parent))]
                    ELSE IF repairableSubTree(h, child)
                    THEN [V1 EXCEPT !.ss = Append(@, Diag("expr", child, pps[1], parent))]
                    ELSE [V1 EXCEPT !.exprShareCount = @ + 1,
                                    !.ss = Append(@, Diag("expr", child, pps[1], parent))]
  ELSE [V EXCEPT !.nparent = MapPut(@, child, <<parent, slot>>)]

\* mutant: a conflicting attachment also replaces the recorded location
setParent_Overwrite(h, ctl, V, child, parent, slot) ==
  IF ~shouldBeTracked(h, child) THEN V
  ELSE IF child \in DOMAIN V.nparent THEN
    LET pps == V.nparent[child]
        ps == <<parent, slot>>
    IN IF pps = ps THEN V
       ELSE IF h[child].flavor = "N_Error" THEN V
       ELSE IF ps \in V.sharing THEN V
       ELSE LET V1 == [V EXCEPT !.sharing = @ \cup {ps},
                                 !.nparent = MapPut(@, child, ps)]
            IN IF isExpr(h, child) /\ ctl.doRepairs = DontReportRepairableSharing
                  /\ repairableSubTree(h, child) THEN V1
               ELSE IF isStmt(h, child)
                    THEN [V1 EXCEPT !.stmtShareCount = @ + 1,
                                    !.ss = Append(@, Diag("stmt", child, pps[1], parent))]
                    ELSE [V1 EXCEPT !.exprShareCount = @ + 1,
                                    !.ss = Append(@, Diag("expr", child, pps[1], parent))]
  ELSE [V EXCEPT !.nparent = MapPut(@, child, <<parent, slot>>)]

\* mutant: the ledger is not consulted before counting
setParent_NoDedup(h, ctl, V, child, parent, slot) ==
  IF ~shouldBeTracked(h, child) THEN V
  ELSE IF child \in DOMAIN V.nparent THEN
    LET pps == V.nparent[child]
        ps == <<parent, slot>>
    IN IF pps = ps THEN V
       ELSE IF h[child].flavor = "N_Error" THEN V
       ELSE LET V1 == [V EXCEPT !.sharing = @ \cup {ps}]
            IN IF isExpr(h, child) /\ ctl.doRepairs = DontReportRepairableSharing
                  /\ repairableSubTree(h, child) THEN V1
               ELSE IF isStmt(h, child)
                    THEN [V1 EXCEPT !.stmtShareCount = @ + 1,
                                    !.ss = Append(@, Diag("stmt", child, pps[1], parent))]
                    ELSE [V1 EXCEPT !.exprShareCount = @ + 1,
                                    !.ss = Append(@, Diag("expr", child, pps[1], parent))]
  ELSE [V EXCEPT !.nparent = MapPut(@, child, <<parent, slot>>)]

\* mutant: repairable sharing is suppressed whatever the reporting setting
setParent_SuppressAll(h, ctl, V, child, parent, slot) ==
  IF ~shouldBeTracked(h, child) THEN V
  ELSE IF child \in DOMAIN V.nparent THEN
    LET pps == V.nparent[child]
        ps == <<parent, slot>>
    IN IF pps = ps THEN V
       ELSE IF h[child].flavor = "N_Error" THEN V
       ELSE IF ps \in V.sharing THEN V
       ELSE LET V1 == [V EXCEPT !.sharing = @ \cup {ps}]
            IN IF isExpr(h, child) /\ repairableSubTree(h, child) THEN V1
               ELSE IF isStmt(h, child)
                    THEN [V1 EXCEPT !.stmtShareCount = @ + 1,
                                    !.ss = Append(@, Diag("stmt", child, pps[1], parent))]
                    ELSE [V1 EXCEPT !.exprShareCount = @ + 1,
                                    !.ss = Append(@, Diag("expr", child, pps[1], parent))]
  ELSE [V EXCEPT !.nparent = MapPut(@, child, <<parent, slot>>)]

\* mutant: a child of error flavor is treated as any other child
setParent_NoErrorExemption(h, ctl, V, child, parent, slot) ==
  IF ~shouldBeTracked(h, child) THEN V
  ELSE IF child \in DOMAIN V.nparent THEN
    LET pps == V.nparent[child]
        ps == <<parent, slot>>
    IN IF pps = ps THEN V
       ELSE IF ps \in V.sharing THEN V
       ELSE LET V1 == [V EXCEPT !.sharing = @ \cup {ps}]
            IN IF isExpr(h, child) /\ ctl.doRepairs = DontReportRepairableSharing
                  /\ repairableSubTree(h, child) THEN V1
               ELSE IF isStmt(h, child)
                    THEN [V1 EXCEPT !.stmtShareCount = @ + 1,
                                    !.ss = Append(@, Diag("stmt", child, pps[1], parent))]
                    ELSE [V1 EXCEPT !.exprShareCount = @ + 1,
                                    !.ss = Append(@, Diag("expr", child, pps[1], parent))]
  ELSE [V EXCEPT !.nparent = MapPut(@, child, <<parent, slot>>)]

\* mutant: expression sharing is suppressed without consulting the classifier
setParent_NoClassify(h, ctl, V, child, parent, slot) ==
  IF ~shouldBeTracked(h, child) THEN V
  ELSE IF child \in DOMAIN V.nparent THEN
    LET pps == V.nparent[child]
        ps == <<parent, slot>>
    IN IF pps = ps THEN V
       ELSE IF h[child].flavor = "N_Error" THEN V
       ELSE IF ps \in V.sharing THEN V
       ELSE LET V1 == [V EXCEPT !.sharing = @ \cup {ps}]
            IN IF isExpr(h, child) /\ ctl.doRepairs = DontReportRepairableSharing THEN V1
               ELSE IF isStmt(h, child)
                    THEN [V1 EXCEPT !.stmtShareCount = @ + 1,
                                    !.ss = Append(@, Diag("stmt", child, pps[1], parent))]
                    ELSE [V1 EXCEPT !.exprShareCount = @ + 1,
                                    !.ss = Append(@, Diag("expr", child, pps[1], parent))]
  ELSE [V EXCEPT !.nparent = MapPut(@, child, <<parent, slot>>)]

\* mutant: the ledger receives the recorded location instead of the new one
setParent_LedgerPrev(h, ctl, V, child, parent, slot) ==
  IF ~shouldBeTracked(h, child) THEN V
  ELSE IF child \in DOMAIN V.nparent THEN
    LET pps == V.nparent[child]
        ps == <<parent, slot>>
    IN IF pps = ps THEN V
       ELSE IF h[child].flavor = "N_Error" THEN V
       ELSE IF pps \in V.sharing THEN V
       ELSE LET V1 == [V EXCEPT !.sharing = @ \cup {pps}]
            IN IF isExpr(h, child) /\ ctl.doRepairs = DontReportRepairableSharing
                  /\ repairableSubTree(h, child) THEN V1
               ELSE IF isStmt(h, child)
                    THEN [V1 EXCEPT !.stmtShareCount = @ + 1,
                                    !.ss = Append(@, Diag("stmt", child, pps[1], parent))]
                    ELSE [V1 EXCEPT !.exprShareCount = @ + 1,
                                    !.ss = Append(@, Diag("expr", child, pps[1], parent))]
  ELSE [V EXCEPT !.nparent = MapPut(@, child, <<parent, slot>>)]

setParent(h, ctl, V, child, parent, slot) ==
  IF ~shouldBeTracked(h, child) THEN V
  ELSE IF child \in DOMAIN V.nparent THEN
    LET pps == V.nparent[child]
        ps == <<parent, slot>>
    IN IF pps = ps THEN V
       ELSE IF h[child].flavor = "N_Error" THEN V
       ELSE IF ps \in V.sharing THEN V
       ELSE LET V1 == [V EXCEPT !.sharing = @ \cup {ps}]
            IN IF isExpr(h, child) /\ ctl.doRepairs = DontReportRepairableSharing
                  /\ repairableSubTree(h, child) THEN V1
               ELSE IF isStmt(h, child)
                    THEN [V1 EXCEPT !.stmtShareCount = @ + 1,
                                    !.ss = Append(@, Diag("stmt", child, pps[1], parent))]
                    ELSE [V1 EXCEPT !.exprShareCount = @ + 1,
                                    !.ss = Append(@, Diag("expr", child, pps[1], parent))]
  ELSE [V EXCEPT !.nparent = MapPut(@, child, <<parent, slot>>)]

\* mutant: a conflicting location is counted and logged the first time only
setParentInst_CountOnce(V, inst, exprParent, slot) ==
  IF inst \in DOMAIN V.iparent THEN
    IF V.iparent[inst] = <<exprParent, slot>> THEN V
    ELSE IF \E i \in 1 .. Len(V.ss) :
              V.ss[i] = Diag("inst", inst, V.iparent[inst][1], exprParent)
    THEN V
    ELSE [V EXCEPT !.instShareCount = @ + 1,
                   !.ss = Append(@, Diag("inst", inst, V.iparent[inst][1], exprParent))]
  ELSE [V EXCEPT !.iparent = MapPut(@, inst, <<exprParent, slot>>)]

\* mutant: a second attachment overwrites the recorded one instead of counting
setParentInst_Overwrite(V, inst, exprParent, slot) ==
  [V EXCEPT !.iparent = MapPut(@, inst, <<exprParent, slot>>)]

setParentInst(V, inst, exprParent, slot) ==
  IF inst \in DOMAIN V.iparent THEN
    IF V.iparent[inst] = <<exprParent, slot>> THEN V
    ELSE [V EXCEPT !.instShareCount = @ + 1,
                   !.ss = Append(@, Diag("inst", inst, V.iparent[inst][1], exprParent))]
  ELSE [V EXCEPT !.iparent = MapPut(@, inst, <<exprParent, slot>>)]

\* a failed assert(it != nparent_.end()) aborts the program
unsetParent(h, V, child, parent, slot) ==
  IF ~shouldBeTracked(h, child) THEN V
  ELSE IF child \notin DOMAIN V.nparent THEN [V EXCEPT !.aborted = TRUE]
  ELSE LET pps == V.nparent[child]
       IN IF pps[1] = parent \/ pps[2] = slot
          THEN [V EXCEPT !.nparent = MapErase(@, child)]
          ELSE V

----------------------------------------------------------------------------
(* Traversal driver *)

\* mutant: the children are visited whatever the mode
RECURSIVE visit_AlwaysRecurse(_, _, _, _)
visit_AlwaysRecurse(h, ctl, V, node) ==
  LET RECURSIVE visitKids(_, _)
      visitKids(W, idx) ==
        IF idx >= Len(h[node].kids) THEN W
        ELSE LET child == h[node].kids[idx + 1]
                 W1 == visit_AlwaysRecurse(h, ctl, W, child)
             IN visitKids(setParent(h, ctl, W1, child, node, idx), idx + 1)
      RECURSIVE visitInsts(_, _)
      visitInsts(W, idx) ==
        IF idx >= Len(h[node].insts) THEN W
        ELSE visitInsts(setParentInst(W, h[node].insts[idx + 1], node, idx), idx + 1)
      V1 == visitKids(V, 0)
  IN IF isExpr(h, node) THEN visitInsts(V1, 0) ELSE V1

RECURSIVE visit(_, _, _, _)
visit(h, ctl, V, node) ==
  LET RECURSIVE visitKids(_, _)
      visitKids(W, idx) ==
        IF idx >= Len(h[node].kids) THEN W
        ELSE LET child == h[node].kids[idx + 1]
                 W1 == IF ctl.visitMode = BatchMode THEN visit(h, ctl, W, child) ELSE W
             IN visitKids(setParent(h, ctl, W1, child, node, idx), idx + 1)
      RECURSIVE visitInsts(_, _)
      visitInsts(W, idx) ==
        IF idx >= Len(h[node].insts) THEN W
        ELSE visitInsts(setParentInst(W, h[node].insts[idx + 1], node, idx), idx + 1)
      V1 == visitKids(V, 0)
  IN IF isExpr(h, node) THEN visitInsts(V1, 0) ELSE V1

----------------------------------------------------------------------------
(* Repair engine *)

\* deep clone of the subtree at e: a new node for every node on every path,
\* each with new instruction handles; [h, ni, id] is the arena, the number of
\* instruction handles and the identity of the clone
RECURSIVE cloneSub(_, _, _)
cloneSub(h, ni, e) ==
  LET RECURSIVE cloneKids(_, _, _, _)
      cloneKids(hh, nn, idx, acc) ==
        IF idx > Len(h[e].kids) THEN [h |-> hh, ni |-> nn, kids |-> acc]
        ELSE LET c == cloneSub(hh, nn, h[e].kids[idx])
             IN cloneKids(c.h, c.ni, idx + 1, Append(acc, c.id))
      k == cloneKids(h, ni, 1, <<>>)
      newInsts == [i \in 1 .. Len(h[e].insts) |-> k.ni + i]
      res == [h[e] EXCEPT !.kids = k.kids, !.insts = newInsts]
  IN [h |-> Append(k.h, res), ni |-> k.ni + Len(newInsts), id |-> Len(k.h) + 1]

cloneSubtree(h, ni, expr) == cloneSub(h, ni, expr)

replaceChild(h, parent, slot, newchild) ==
  [h EXCEPT ![parent].kids[slot + 1] = newchild]

\* std::set<parslot> iterates in increasing (parent, slot) order; node
\* identities stand for addresses
parslotLess(a, b) == a[1] < b[1] \/ (a[1] = b[1] /\ a[2] < b[2])
firstParslot(S) == CHOOSE a \in S : \A b \in S \ {a} : parslotLess(a, b)

\* mutant: the loop stops after the first ledger entry
repairLoop_OnlyFirst(h, ni, todo, visited) ==
  IF todo = {} THEN [h |-> h, ni |-> ni, ret |-> TRUE, aborted |-> FALSE]
  ELSE LET ps == firstParslot(todo)
           child == childAt(h, ps)
       IN IF isStmt(h, child)
          THEN [h |-> h, ni |-> ni, ret |-> FALSE, aborted |-> TRUE]
          ELSE IF child \notin visited /\ ~repairableSubTree(h, child)
          THEN [h |-> h, ni |-> ni, ret |-> FALSE, aborted |-> FALSE]
          ELSE LET c == cloneSubtree(h, ni, child)
               IN [h |-> replaceChild(c.h, ps[1], ps[2], c.id), ni |-> c.ni,
                   ret |-> TRUE, aborted |-> FALSE]

\* mutant: the clone is made but the slot is not rewired to it
RECURSIVE repairLoop_NoRewire(_, _, _, _)
repairLoop_NoRewire(h, ni, todo, visited) ==
  IF todo = {} THEN [h |-> h, ni |-> ni, ret |-> TRUE, aborted |-> FALSE]
  ELSE LET ps == firstParslot(todo)
           child == childAt(h, ps)
       IN IF isStmt(h, child)
          THEN [h |-> h, ni |-> ni, ret |-> FALSE, aborted |-> TRUE]
          ELSE IF child \notin visited /\ ~repairableSubTree(h, child)
          THEN [h |-> h, ni |-> ni, ret |-> FALSE, aborted |-> FALSE]
          ELSE LET c == cloneSubtree(h, ni, child)
               IN repairLoop_NoRewire(c.h, c.ni, todo \ {ps}, visited \cup {child})

\* the loop of repair over the entries of sharing_ not yet processed;
\* ret is TRUE (all processed), FALSE (classification failed), or the loop
\* stopped at assert(child) (aborted)
RECURSIVE repairLoop(_, _, _, _)
repairLoop(h, ni, todo, visited) ==
  IF todo = {} THEN [h |-> h, ni |-> ni, ret |-> TRUE, aborted |-> FALSE]
  ELSE LET ps == firstParslot(todo)
           child == childAt(h, ps)
       IN IF isStmt(h, child)
          THEN [h |-> h, ni |-> ni, ret |-> FALSE, aborted |-> TRUE]
          ELSE IF child \notin visited /\ ~repairableSubTree(h, child)
          THEN [h |-> h, ni |-> ni, ret |-> FALSE, aborted |-> FALSE]
          ELSE LET c == cloneSubtree(h, ni, child)
               IN repairLoop(replaceChild(c.h, ps[1], ps[2], c.id), c.ni,
                             todo \ {ps}, visited \cup {child})

\* [h, ni, V, ret]: sharing_ and exprShareCount_ are cleared on success only
repair(h, ni, V) ==
  LET r == repairLoop(h, ni, V.sharing, {})
  IN [h |-> r.h, ni |-> r.ni, ret |-> r.ret,
      V |-> IF r.aborted THEN [V EXCEPT !.aborted = TRUE]
            ELSE IF r.ret THEN [V EXCEPT !.sharing = {}, !.exprShareCount = 0]
            ELSE V]

\* ScopedIntegrityCheckDisabler: the constructor saves the flag and disables
\* the checks
disablerEnter(enabled) == [val_ |-> enabled, enabled |-> FALSE]

\* mutant: the destructor re-enables the checks instead of restoring val_
disablerExit_Enable(d) == TRUE

\* the value the destructor hands to setIntegrityChecks
disablerExit(d) == d.val_

\* examine up to the call of repair: [V, ret, repair]
examineHead(h, ctl, V, node) ==
  LET V1 == visit(h, ctl, V, node)
  IN IF V1.instShareCount # 0 \/ V1.stmtShareCount # 0
     THEN [V |-> V1, ret |-> FALSE, repair |-> FALSE]
     ELSE IF V1.exprShareCount # 0
     THEN [V |-> V1, ret |-> FALSE, repair |-> FALSE]
     ELSE IF ctl.visitMode = IncrementalMode
     THEN [V |-> [V1 EXCEPT !.sharing = {}], ret |-> TRUE, repair |-> FALSE]
     ELSE IF V1.sharing = {}
     THEN [V |-> V1, ret |-> TRUE, repair |-> FALSE]
     ELSE [V |-> V1, ret |-> TRUE, repair |-> TRUE]

\* mutant: the three counters are zeroed at the start of the pass
examine_ResetCounters(h, ni, ctl, V, node) ==
  LET V1 == visit(h, ctl, [V EXCEPT !.instShareCount = 0, !.stmtShareCount = 0,
                                    !.exprShareCount = 0], node)
  IN IF V1.instShareCount # 0 \/ V1.stmtShareCount # 0
     THEN [h |-> h, ni |-> ni, V |-> V1, ret |-> FALSE]
     ELSE IF V1.exprShareCount # 0
     THEN [h |-> h, ni |-> ni, V |-> V1, ret |-> FALSE]
     ELSE IF ctl.visitMode = IncrementalMode
     THEN [h |-> h, ni |-> ni, V |-> [V1 EXCEPT !.sharing = {}], ret |-> TRUE]
     ELSE IF V1.sharing = {}
     THEN [h |-> h, ni |-> ni, V |-> V1, ret |-> TRUE]
     ELSE repair(h, ni, V1)

\* mutant: batch mode returns success without repairing
examine_SkipRepair(h, ni, ctl, V, node) ==
  LET V1 == visit(h, ctl, V, node)
  IN IF V1.instShareCount # 0 \/ V1.stmtShareCount # 0
     THEN [h |-> h, ni |-> ni, V |-> V1, ret |-> FALSE]
     ELSE IF V1.exprShareCount # 0
     THEN [h |-> h, ni |-> ni, V |-> V1, ret |-> FALSE]
     ELSE [h |-> h, ni |-> ni, V |-> [V1 EXCEPT !.sharing = {}], ret |-> TRUE]

\* mutant: incremental mode returns without clearing the ledger
examine_KeepLedger(h, ni, ctl, V, node) ==
  LET V1 == visit(h, ctl, V, node)
  IN IF V1.instShareCount # 0 \/ V1.stmtShareCount # 0
     THEN [h |-> h, ni |-> ni, V |-> V1, ret |-> FALSE]
     ELSE IF V1.exprShareCount # 0
     THEN [h |-> h, ni |-> ni, V |-> V1, ret |-> FALSE]
     ELSE IF ctl.visitMode = IncrementalMode
     THEN [h |-> h, ni |-> ni, V |-> V1, ret |-> TRUE]
     ELSE IF V1.sharing = {}
     THEN [h |-> h, ni |-> ni, V |-> V1, ret |-> TRUE]
     ELSE repair(h, ni, V1)

\* mutant: the statement-share counter is not consulted
examine_NoStmtCheck(h, ni, ctl, V, node) ==
  LET V1 == visit(h, ctl, V, node)
  IN IF V1.instShareCount # 0
     THEN [h |-> h, ni |-> ni, V |-> V1, ret |-> FALSE]
     ELSE IF V1.exprShareCount # 0
     THEN [h |-> h, ni |-> ni, V |-> V1, ret |-> FALSE]
     ELSE IF ctl.visitMode = IncrementalMode
     THEN [h |-> h, ni |-> ni, V |-> [V1 EXCEPT !.sharing = {}], ret |-> TRUE]
     ELSE IF V1.sharing = {}
     THEN [h |-> h, ni |-> ni, V |-> V1, ret |-> TRUE]
     ELSE repair(h, ni, V1)

examine(h, ni, ctl, V, node) ==
  LET V1 == visit(h, ctl, V, node)
  IN IF V1.instShareCount # 0 \/ V1.stmtShareCount # 0
     THEN [h |-> h, ni |-> ni, V |-> V1, ret |-> FALSE]
     ELSE IF V1.exprShareCount # 0
     THEN [h |-> h, ni |-> ni, V |-> V1, ret |-> FALSE]
     ELSE IF ctl.visitMode = IncrementalMode
     THEN [h |-> h, ni |-> ni, V |-> [V1 EXCEPT !.sharing = {}], ret |-> TRUE]
     ELSE IF V1.sharing = {}
     THEN [h |-> h, ni |-> ni, V |-> V1, ret |-> TRUE]
     ELSE repair(h, ni, V1)

----------------------------------------------------------------------------
(* The trees handed to the checker *)


ExprNode(f, o, m, ks, is) ==
  [stmt |-> FALSE, flavor |-> f, op |-> o, modscope |-> m, kids |-> ks, insts |-> is]
StmtNode(f, ks) ==
  [stmt |-> TRUE, flavor |-> f, op |-> "none", modscope |-> FALSE, kids |-> ks,
   insts |-> <<>>]

KidSeqs(S, n) == UNION {[1 .. k -> S] : k \in {n}}
InstSeqs == UNION {[1 .. k -> 1 .. MaxInsts] : k \in 0 .. MaxInstSlots}

\* the nodes the front end can build over the nodes built before it, whose
\* identities are S and of which E are expressions: flavors with the number
\* of children the node builder gives them
NodeChoices(S, E) ==
  {ExprNode(f, "none", FALSE, <<>>, <<>>) : f \in {"N_Const", "N_Var", "N_Error"}}
  \cup {ExprNode("N_Const", "none", TRUE, <<>>, <<>>)}
  \cup {ExprNode("N_Deref", "none", FALSE, ks, is) : ks \in KidSeqs(E, 1), is \in InstSeqs}
  \cup {ExprNode("N_BinaryOp", o, FALSE, ks, <<>>) :
          o \in {"OPERATOR_PLUS", "OPERATOR_MULT"}, ks \in KidSeqs(E, 2)}
  \cup {StmtNode("N_Error", <<>>)}
  \cup UNION {{StmtNode("N_BlockStmt", ks) : ks \in KidSeqs(S, k)} : k \in 0 .. MaxKids}

\* an expression has only expressions as children
WellFormedArena(h) ==
  \A n \in DOMAIN h : ~h[n].stmt =>
     \A i \in 1 .. Len(h[n].kids) : ~h[h[n].kids[i]].stmt

\* the arena of N nodes is built children first: g holds nodes i + 1 .. N, node
\* n being element n - i; node 1, built last, is the root and reaches every node
RECURSIVE BuildArena(_, _, _)
BuildArena(N, i, g) ==
  IF i = 0 THEN /\ Subtree(g, 1) = 1 .. N
                /\ nodes = g
                /\ prev = [nodes |-> g, V |-> FreshV]
  ELSE \E c \in NodeChoices((i + 1) .. N, {n \in (i + 1) .. N : ~g[n - i].stmt}) :
         BuildArena(N, i - 1, <<c>> \o g)

NoOp == [op |-> "none"]
NoFrame == [active |-> FALSE]

\* a tree of N nodes and a newly constructed visitor
InitTree(N) ==
  /\ BuildArena(N, N, <<>>)
  /\ numInsts = MaxInsts
  /\ control \in Controls
  /\ nparent_ = <<>>
  /\ iparent_ = <<>>
  /\ sharing_ = {}
  /\ instShareCount_ = 0
  /\ stmtShareCount_ = 0
  /\ exprShareCount_ = 0
  /\ ss_ = <<>>
  /\ checksEnabled = TRUE
  /\ aborted = FALSE
  /\ calls = 0
  /\ lastOp = NoOp
  /\ passes = <<>>
  /\ frame = NoFrame

SetV(V) ==
  /\ nparent_' = V.nparent
  /\ iparent_' = V.iparent
  /\ sharing_' = V.sharing
  /\ instShareCount_' = V.instShareCount
  /\ stmtShareCount_' = V.stmtShareCount
  /\ exprShareCount_' = V.exprShareCount
  /\ ss_' = V.ss
  /\ aborted' = V.aborted

\* bool IntegrityVisitor::examine(Bnode *node)
Examine(node) ==
  /\ ~aborted
  /\ calls < MaxCalls
  /\ LET r == examine(nodes, numInsts, control, VState, node)
     IN /\ nodes' = r.h
        /\ numInsts' = r.ni
        /\ SetV(r.V)
        /\ lastOp' = [op |-> "examine", node |-> node, ret |-> r.ret]
        /\ passes' = Append(passes, [control |-> control, node |-> node, ret |-> r.ret])
  /\ prev' = [nodes |-> nodes, V |-> VState]
  /\ calls' = calls + 1
  /\ UNCHANGED <<control, checksEnabled, frame>>

\* IntegrityVisitor::IntegrityVisitor(be, control): a new visitor for the same tree
NewVisitor(ctl) ==
  /\ ~aborted
  /\ lastOp.op = "examine"
  /\ calls < MaxCalls
  /\ control' = ctl
  /\ SetV(FreshV)
  /\ lastOp' = [op |-> "new"]
  /\ prev' = [nodes |-> nodes, V |-> VState]
  /\ UNCHANGED <<nodes, numInsts, checksEnabled, calls, passes, frame>>

\* Spec: one check of a tree by a newly constructed visitor, as the batch
\* check of a function body and the first incremental check do
Init == InitTree(MaxNodes)

Next == \E n \in NodeIds : lastOp = NoOp /\ Examine(n)

Spec == Init /\ [][Next]_vars

----------------------------------------------------------------------------
(* SpecEdges: the node builder and the checker record and remove the edges  *)
(* of a tree one at a time, between checks by the same visitor              *)

\* void IntegrityVisitor::setParent(Bnode *child, Bnode *parent, unsigned slot)
SetParentCall(ps) ==
  /\ ~aborted
  /\ calls < MaxEdgeOps
  /\ SetV(setParent(nodes, control, VState, childAt(nodes, ps), ps[1], ps[2]))
  /\ lastOp' = [op |-> "setParent", child |-> childAt(nodes, ps),
                parent |-> ps[1], slot |-> ps[2]]
  /\ prev' = [nodes |-> nodes, V |-> VState]
  /\ calls' = calls + 1
  /\ UNCHANGED <<nodes, numInsts, control, checksEnabled, passes, frame>>

\* void IntegrityVisitor::unsetParent(Bnode *child, Bnode *parent, unsigned slot)
UnsetParentCall(ps) ==
  /\ ~aborted
  /\ calls < MaxEdgeOps
  /\ SetV(unsetParent(nodes, VState, childAt(nodes, ps), ps[1], ps[2]))
  /\ lastOp' = [op |-> "unsetParent", child |-> childAt(nodes, ps),
                parent |-> ps[1], slot |-> ps[2]]
  /\ prev' = [nodes |-> nodes, V |-> VState]
  /\ calls' = calls + 1
  /\ UNCHANGED <<nodes, numInsts, control, checksEnabled, passes, frame>>

\* void IntegrityVisitor::setParent(llvm::Instruction *inst, Bexpression *, unsigned)
SetParentInstCall(ps) ==
  /\ ~aborted
  /\ calls < MaxEdgeOps
  /\ SetV(setParentInst(VState, instAt(nodes, ps), ps[1], ps[2]))
  /\ lastOp' = [op |-> "setParentInst", inst |-> instAt(nodes, ps),
                parent |-> ps[1], slot |-> ps[2]]
  /\ prev' = [nodes |-> nodes, V |-> VState]
  /\ calls' = calls + 1
  /\ UNCHANGED <<nodes, numInsts, control, checksEnabled, passes, frame>>

ExamineAfterEdges(n) == calls < MaxEdgeOps /\ Examine(n)

InitEdges == InitTree(MaxEdgeNodes)

NextEdges ==
  \/ \E ps \in Locs(nodes) : SetParentCall(ps)
  \/ \E ps \in Locs(nodes) : UnsetParentCall(ps)
  \/ \E ps \in ILocs(nodes) : SetParentInstCall(ps)
  \/ \E n \in NodeIds : ExamineAfterEdges(n)

SpecEdges == InitEdges /\ [][NextEdges]_vars

----------------------------------------------------------------------------
(* SpecPasses: several checks of one tree, by the same visitor or by a new  *)
(* one (incremental checks during construction, then the batch check)       *)

InitPasses == InitTree(MaxPassNodes)

NextPasses ==
  \/ \E n \in NodeIds : Examine(n)
  \/ \E ctl \in Controls : NewVisitor(ctl)

SpecPasses == InitPasses /\ [][NextPasses]_vars

----------------------------------------------------------------------------
(* SpecClassify: the classifier applied to expression graphs of every flavor *)

\* the expressions the node builder can make over the expressions S
ExprChoices(S) ==
  {ExprNode(f, "none", FALSE, <<>>, <<>>) : f \in {"N_Const", "N_Var", "N_Error", "N_Call"}}
  \cup {ExprNode(f, "none", FALSE, ks, <<>>) :
          f \in {"N_Conversion", "N_Deref", "N_StructField", "N_UnaryOp"},
          ks \in KidSeqs(S, 1)}
  \cup {ExprNode("N_BinaryOp", o, FALSE, ks, <<>>) :
          o \in {"OPERATOR_PLUS", "OPERATOR_MINUS", "OPERATOR_MULT"},
          ks \in KidSeqs(S, 2)}

RECURSIVE BuildExprArena(_, _, _)
BuildExprArena(N, i, g) ==
  IF i = 0 THEN /\ nodes = g
                /\ prev = [nodes |-> g, V |-> FreshV]
  ELSE \E c \in ExprChoices((i + 1) .. N) : BuildExprArena(N, i - 1, <<c>> \o g)

InitClassify ==
  /\ BuildExprArena(MaxClassifyNodes, MaxClassifyNodes, <<>>)
  /\ numInsts = 0
  /\ control = [visitMode |-> BatchMode, doRepairs |-> DontReportRepairableSharing]
  /\ nparent_ = <<>>
  /\ iparent_ = <<>>
  /\ sharing_ = {}
  /\ instShareCount_ = 0
  /\ stmtShareCount_ = 0
  /\ exprShareCount_ = 0
  /\ ss_ = <<>>
  /\ checksEnabled = TRUE
  /\ aborted = FALSE
  /\ calls = 0
  /\ lastOp = NoOp
  /\ passes = <<>>
  /\ frame = NoFrame

\* bool IntegrityVisitor::repairableSubTree(Bexpression *root)
Classify(root) ==
  /\ lastOp = NoOp
  /\ lastOp' = [op |-> "repairableSubTree", node |-> root,
                ret |-> repairableSubTree(nodes, root)]
  /\ calls' = calls + 1
  /\ UNCHANGED <<nodes, numInsts, control, nparent_, iparent_, sharing_,
                 instShareCount_, stmtShareCount_, exprShareCount_, ss_,
                 checksEnabled, aborted, passes, frame, prev>>

NextClassify == \E n \in NodeIds : Classify(n)

SpecClassify == InitClassify /\ [][NextClassify]_vars

----------------------------------------------------------------------------
(* SpecRepair: a batch visitor that has recorded every edge of the tree as  *)
(* the front end built it; the front end may then install a new child, and  *)
(* examine runs with repair taken one ledger entry at a time                *)

\* the expressions the front end installs over an existing child
InstalledFlavors == {"N_Var", "N_Call"}

InitRepair ==
  /\ BuildArena(MaxRepairNodes, MaxRepairNodes, <<>>)
  /\ numInsts = MaxInsts
  /\ control = [visitMode |-> BatchMode, doRepairs |-> DontReportRepairableSharing]
  /\ LET V == visit(nodes, control, FreshV, 1)
     IN /\ nparent_ = V.nparent
        /\ iparent_ = V.iparent
        /\ sharing_ = V.sharing
        /\ instShareCount_ = V.instShareCount
        /\ stmtShareCount_ = V.stmtShareCount
        /\ exprShareCount_ = V.exprShareCount
        /\ ss_ = V.ss
        /\ aborted = V.aborted
  /\ checksEnabled \in BOOLEAN
  /\ calls = 0
  /\ lastOp = NoOp
  /\ passes = <<>>
  /\ frame = NoFrame

\* the front end builds a leaf expression and installs it with
\* Bnode::replaceChild(slot, newchild)
InstallChild(ps, f) ==
  /\ ~aborted /\ ~frame.active
  /\ calls < MaxRepairCalls
  /\ LET new == Len(nodes) + 1
     IN /\ nodes' = replaceChild(Append(nodes, ExprNode(f, "none", FALSE, <<>>, <<>>)),
                                 ps[1], ps[2], new)
        /\ lastOp' = [op |-> "replaceChild", child |-> new,
                      parent |-> ps[1], slot |-> ps[2]]
  /\ prev' = [nodes |-> nodes, V |-> VState, enabled |-> checksEnabled]
  /\ calls' = calls + 1
  /\ UNCHANGED <<numInsts, control, nparent_, iparent_, sharing_, instShareCount_,
                 stmtShareCount_, exprShareCount_, ss_, checksEnabled, aborted,
                 passes, frame>>

\* examine(node) up to its return or, when it calls repair, up to the
\* construction of the disabler at the head of repair
ExamineEnter(node) ==
  /\ ~aborted /\ ~frame.active
  /\ calls < MaxRepairCalls
  /\ LET r == examineHead(nodes, control, VState, node)
     IN /\ SetV(r.V)
        /\ IF r.repair
           THEN LET d == disablerEnter(checksEnabled)
                IN /\ frame' = [active |-> TRUE, node |-> node, disabler |-> d,
                                todo |-> r.V.sharing, visited |-> {}]
                   /\ checksEnabled' = d.enabled
                   /\ lastOp' = [op |-> "repair", node |-> node]
                   /\ passes' = passes
           ELSE /\ frame' = frame
                /\ checksEnabled' = checksEnabled
                /\ lastOp' = [op |-> "examine", node |-> node, ret |-> r.ret,
                              repaired |-> FALSE]
                /\ passes' = Append(passes, [control |-> control, node |-> node,
                                             ret |-> r.ret])
  /\ prev' = [nodes |-> nodes, V |-> VState, enabled |-> checksEnabled,
              ni |-> numInsts]
  /\ calls' = calls + 1
  /\ UNCHANGED <<nodes, numInsts, control>>

\* mutant: a failed classification clears the ledger before returning
RepairStep_ClearOnFailure ==
  /\ ~aborted /\ frame.active /\ frame.todo # {}
  /\ LET ps == firstParslot(frame.todo)
         child == childAt(nodes, ps)
     IN IF isStmt(nodes, child)
        THEN /\ aborted' = TRUE
             /\ UNCHANGED <<nodes, numInsts, checksEnabled, lastOp, passes, frame>>
        ELSE IF child \notin frame.visited /\ ~repairableSubTree(nodes, child)
        THEN /\ checksEnabled' = disablerExit(frame.disabler)
             /\ frame' = NoFrame
             /\ lastOp' = [op |-> "examine", node |-> frame.node, ret |-> FALSE,
                           repaired |-> TRUE]
             /\ passes' = Append(passes, [control |-> control, node |-> frame.node,
                                          ret |-> FALSE])
             /\ UNCHANGED <<nodes, numInsts, aborted>>
        ELSE LET c == cloneSubtree(nodes, numInsts, child)
             IN /\ nodes' = replaceChild(c.h, ps[1], ps[2], c.id)
                /\ numInsts' = c.ni
                /\ frame' = [frame EXCEPT !.todo = @ \ {ps},
                                          !.visited = @ \cup {child}]
                /\ UNCHANGED <<checksEnabled, lastOp, passes, aborted>>
  /\ sharing_' = (IF frame'.active \/ aborted' THEN sharing_ ELSE {})
  /\ UNCHANGED <<control, nparent_, iparent_, instShareCount_,
                 stmtShareCount_, exprShareCount_, ss_, calls, prev>>

\* one iteration of the loop of repair; a failed classification returns
\* false through the destructor of the disabler
RepairStep ==
  /\ ~aborted /\ frame.active /\ frame.todo # {}
  /\ LET ps == firstParslot(frame.todo)
         child == childAt(nodes, ps)
     IN IF isStmt(nodes, child)
        THEN /\ aborted' = TRUE
             /\ UNCHANGED <<nodes, numInsts, checksEnabled, lastOp, passes, frame>>
        ELSE IF child \notin frame.visited /\ ~repairableSubTree(nodes, child)
        THEN /\ checksEnabled' = disablerExit(frame.disabler)
             /\ frame' = NoFrame
             /\ lastOp' = [op |-> "examine", node |-> frame.node, ret |-> FALSE,
                           repaired |-> TRUE]
             /\ passes' = Append(passes, [control |-> control, node |-> frame.node,
                                          ret |-> FALSE])
             /\ UNCHANGED <<nodes, numInsts, aborted>>
        ELSE LET c == cloneSubtree(nodes, numInsts, child)
             IN /\ nodes' = replaceChild(c.h, ps[1], ps[2], c.id)
                /\ numInsts' = c.ni
                /\ frame' = [frame EXCEPT !.todo = @ \ {ps},
                                          !.visited = @ \cup {child}]
                /\ UNCHANGED <<checksEnabled, lastOp, passes, aborted>>
  /\ UNCHANGED <<control, nparent_, iparent_, sharing_, instShareCount_,
                 stmtShareCount_, exprShareCount_, ss_, calls, prev>>

\* the end of repair: every entry processed
RepairReturn ==
  /\ ~aborted /\ frame.active /\ frame.todo = {}
  /\ sharing_' = {}
  /\ exprShareCount_' = 0
  /\ checksEnabled' = disablerExit(frame.disabler)
  /\ frame' = NoFrame
  /\ lastOp' = [op |-> "examine", node |-> frame.node, ret |-> TRUE, repaired |-> TRUE]
  /\ passes' = Append(passes, [control |-> control, node |-> frame.node, ret |-> TRUE])
  /\ UNCHANGED <<nodes, numInsts, control, nparent_, iparent_, instShareCount_,
                 stmtShareCount_, ss_, aborted, calls, prev>>

NextRepair ==
  \/ \E ps \in Locs(nodes), f \in InstalledFlavors : InstallChild(ps, f)
  \/ \E n \in NodeIds : ExamineEnter(n)
  \/ RepairStep
  \/ RepairReturn

SpecRepair == InitRepair /\ [][NextRepair]_vars

----------------------------------------------------------------------------
(* SpecDetach: the node builder records the edges of a tree and removes     *)
(* them again when it reparents the children of a node, in any order        *)

\* void IntegrityVisitor::setParent(Bnode *child, Bnode *parent, unsigned slot)
AttachEdge(ps) ==
  /\ ~aborted
  /\ calls < MaxDetachOps
  /\ SetV(setParent(nodes, control, VState, childAt(nodes, ps), ps[1], ps[2]))
  /\ lastOp' = [op |-> "setParent", child |-> childAt(nodes, ps),
                parent |-> ps[1], slot |-> ps[2]]
  /\ passes' = Append(passes, [op |-> "setParent", loc |-> ps])
  /\ prev' = [nodes |-> nodes, V |-> VState]
  /\ calls' = calls + 1
  /\ UNCHANGED <<nodes, numInsts, control, checksEnabled, frame>>

\* the edges recorded by the first k calls of the log and not removed since
RECURSIVE AttachedAfter(_, _)
AttachedAfter(log, k) ==
  IF k = 0 THEN {}
  ELSE IF log[k].op = "setParent" THEN AttachedAfter(log, k - 1) \cup {log[k].loc}
  ELSE IF log[k].op = "unsetParent" THEN AttachedAfter(log, k - 1) \ {log[k].loc}
  ELSE AttachedAfter(log, k - 1)

\* void IntegrityVisitor::unsetParent(Bnode *child, Bnode *parent, unsigned slot)
\* called by the node builder for a child it installed in the node it is
\* converting: an edge recorded and not removed since
DetachEdge(ps) ==
  /\ ~aborted
  /\ calls < MaxDetachOps
  /\ ps \in AttachedAfter(passes, Len(passes))
  /\ SetV(unsetParent(nodes, VState, childAt(nodes, ps), ps[1], ps[2]))
  /\ lastOp' = [op |-> "unsetParent", child |-> childAt(nodes, ps),
                parent |-> ps[1], slot |-> ps[2]]
  /\ passes' = Append(passes, [op |-> "unsetParent", loc |-> ps])
  /\ prev' = [nodes |-> nodes, V |-> VState]
  /\ calls' = calls + 1
  /\ UNCHANGED <<nodes, numInsts, control, checksEnabled, frame>>

\* bool IntegrityVisitor::examine(Bnode *node), of the root, once the builder
\* has made its edge calls
ExamineAfterDetach ==
  /\ ~aborted
  /\ calls <= MaxDetachOps
  /\ lastOp.op \in {"setParent", "unsetParent"}
  /\ LET r == examine(nodes, numInsts, control, VState, 1)
     IN /\ nodes' = r.h
        /\ numInsts' = r.ni
        /\ SetV(r.V)
        /\ lastOp' = [op |-> "examine", node |-> 1, ret |-> r.ret]
        /\ passes' = Append(passes, [op |-> "examine", node |-> 1, ret |-> r.ret])
  /\ prev' = [nodes |-> nodes, V |-> VState]
  /\ calls' = MaxDetachOps + 1
  /\ UNCHANGED <<control, checksEnabled, frame>>

InitDetach == InitTree(MaxDetachNodes)

NextDetach ==
  \/ \E ps \in Locs(nodes) : AttachEdge(ps)
  \/ \E ps \in Locs(nodes) : DetachEdge(ps)
  \/ ExamineAfterDetach

SpecDetach == InitDetach /\ [][NextDetach]_vars

----------------------------------------------------------------------------
(* SpecWalk: one call of repairableSubTree or of examine, taken one loop    *)
(* iteration at a time: the work list of the classifier and the call stack  *)
(* of visit are part of the state                                           *)

\* bool IntegrityVisitor::repairableSubTree(Bexpression *root): the work list
\* and the visited set before the loop
ClassifyEnter(root) ==
  /\ calls = 0
  /\ isExpr(nodes, root)
  /\ frame' = [active |-> TRUE, kind |-> "classify", node |-> root,
                workList |-> <<root>>, visited |-> {root}, popped |-> <<>>]
  /\ calls' = 1
  /\ UNCHANGED <<nodes, numInsts, control, nparent_, iparent_, sharing_,
                 instShareCount_, stmtShareCount_, exprShareCount_, ss_,
                 checksEnabled, aborted, lastOp, passes, prev>>

\* mutant: every child is pushed, visited before or not
RECURSIVE pushKids_NoVisited(_, _, _, _, _)
pushKids_NoVisited(h, e, i, wl, vs) ==
  IF i > Len(h[e].kids) THEN [wl |-> wl, vs |-> vs]
  ELSE LET ce == h[e].kids[i]
       IN pushKids_NoVisited(h, e, i + 1, Append(wl, ce), vs \cup {ce})

\* the children of e not visited so far, pushed in slot order: [wl, vs]
RECURSIVE pushKids(_, _, _, _, _)
pushKids(h, e, i, wl, vs) ==
  IF i > Len(h[e].kids) THEN [wl |-> wl, vs |-> vs]
  ELSE LET ce == h[e].kids[i]
       IN IF ce \notin vs
          THEN pushKids(h, e, i + 1, Append(wl, ce), vs \cup {ce})
          ELSE pushKids(h, e, i + 1, wl, vs)

\* one iteration of the while loop of repairableSubTree, or its exit
ClassifyStep ==
  /\ frame.active /\ frame.kind = "classify"
  /\ IF frame.workList = <<>>
     THEN /\ frame' = [frame EXCEPT !.active = FALSE]
          /\ lastOp' = [op |-> "repairableSubTree", node |-> frame.node, ret |-> TRUE]
     ELSE LET e == frame.workList[Len(frame.workList)]
              rest == SubSeq(frame.workList, 1, Len(frame.workList) - 1)
              log == Append(frame.popped, e)
          IN IF \/ nodes[e].flavor \notin acceptable
                \/ /\ nodes[e].flavor = "N_BinaryOp"
                   /\ nodes[e].op # "OPERATOR_PLUS" /\ nodes[e].op # "OPERATOR_MINUS"
             THEN /\ frame' = [frame EXCEPT !.active = FALSE, !.workList = rest,
                                            !.popped = log]
                  /\ lastOp' = [op |-> "repairableSubTree", node |-> frame.node,
                                ret |-> FALSE]
             ELSE LET r == pushKids(nodes, e, 1, rest, frame.visited)
                  IN /\ frame' = [frame EXCEPT !.workList = r.wl, !.visited = r.vs,
                                               !.popped = log]
                     /\ lastOp' = lastOp
  /\ UNCHANGED <<nodes, numInsts, control, nparent_, iparent_, sharing_,
                 instShareCount_, stmtShareCount_, exprShareCount_, ss_,
                 checksEnabled, aborted, calls, passes, prev>>

\* bool IntegrityVisitor::examine(Bnode *node): the call visit(node) is entered
VisitEnter(node) ==
  /\ calls = 0
  /\ frame' = [active |-> TRUE, kind |-> "visit", node |-> node,
                stack |-> <<[node |-> node, idx |-> 0, back |-> FALSE]>>,
                entered |-> <<node>>]
  /\ prev' = [nodes |-> nodes, V |-> VState]
  /\ calls' = 1
  /\ UNCHANGED <<nodes, numInsts, control, nparent_, iparent_, sharing_,
                 instShareCount_, stmtShareCount_, exprShareCount_, ss_,
                 checksEnabled, aborted, lastOp, passes>>

\* the second loop of visit: the instructions of an expression
RECURSIVE visitInstsFrom(_, _, _, _)
visitInstsFrom(h, V, node, idx) ==
  IF idx >= Len(h[node].insts) THEN V
  ELSE visitInstsFrom(h, setParentInst(V, h[node].insts[idx + 1], node, idx),
                      node, idx + 1)

\* one step of the innermost activation of visit: the recursive call for the
\* child at idx (batch mode), setParent of that child on return, or, after the
\* last child, the instruction loop and the return
VisitStep ==
  /\ frame.active /\ frame.kind = "visit" /\ frame.stack # <<>>
  /\ LET d == Len(frame.stack)
         top == frame.stack[d]
         n == top.node
     IN IF top.idx < Len(nodes[n].kids)
        THEN LET child == nodes[n].kids[top.idx + 1]
             IN IF control.visitMode = BatchMode /\ ~top.back
                THEN /\ frame' = [frame EXCEPT
                                    !.stack = Append([@ EXCEPT ![d].back = TRUE],
                                                     [node |-> child, idx |-> 0,
                                                      back |-> FALSE]),
                                    !.entered = Append(@, child)]
                     /\ SetV(VState)
                ELSE /\ frame' = [frame EXCEPT
                                    !.stack[d] = [node |-> n, idx |-> top.idx + 1,
                                                  back |-> FALSE]]
                     /\ \E W \in {setParent(nodes, control, VState, child, n,
                                              top.idx)} : SetV(W)
        ELSE /\ frame' = [frame EXCEPT !.stack = SubSeq(@, 1, d - 1)]
             /\ \E W \in {IF isExpr(nodes, n)
                           THEN visitInstsFrom(nodes, VState, n, 0)
                           ELSE VState} : SetV(W)
  /\ UNCHANGED <<nodes, numInsts, control, checksEnabled, calls, lastOp, passes,
                 prev>>

\* examine after the call of visit: [h, ni, V, ret]
examineTail(h, ni, ctl, V1) ==
  IF V1.instShareCount # 0 \/ V1.stmtShareCount # 0
  THEN [h |-> h, ni |-> ni, V |-> V1, ret |-> FALSE]
  ELSE IF V1.exprShareCount # 0
  THEN [h |-> h, ni |-> ni, V |-> V1, ret |-> FALSE]
  ELSE IF ctl.visitMode = IncrementalMode
  THEN [h |-> h, ni |-> ni, V |-> [V1 EXCEPT !.sharing = {}], ret |-> TRUE]
  ELSE IF V1.sharing = {}
  THEN [h |-> h, ni |-> ni, V |-> V1, ret |-> TRUE]
  ELSE repair(h, ni, V1)

\* visit has returned to examine: the counters are tested, repair runs, and
\* examine returns
ExamineFinish ==
  /\ frame.active /\ frame.kind = "visit" /\ frame.stack = <<>>
  /\ \E r \in {examineTail(nodes, numInsts, control, VState)} :
        /\ nodes' = r.h
        /\ numInsts' = r.ni
        /\ SetV(r.V)
        /\ lastOp' = [op |-> "examine", node |-> frame.node, ret |-> r.ret]
        /\ passes' = Append(passes, [control |-> control, node |-> frame.node,
                                     ret |-> r.ret])
  /\ frame' = [frame EXCEPT !.active = FALSE]
  /\ UNCHANGED <<control, checksEnabled, calls, prev>>

InitWalk == InitTree(MaxWalkNodes)

WalkStep == ClassifyStep \/ VisitStep \/ ExamineFinish

NextWalk ==
  \/ \E n \in NodeIds : ClassifyEnter(n)
  \/ \E n \in NodeIds : VisitEnter(n)
  \/ ClassifyStep
  \/ VisitStep
  \/ ExamineFinish

SpecWalk == InitWalk /\ [][NextWalk]_vars

\* a call that has been entered runs on: the checker is single-threaded and
\* nothing suspends a loop iteration or a return
SpecWalkLive == SpecWalk /\ WF_vars(WalkStep)

----------------------------------------------------------------------------
(* Vocabulary of the claims *)

\* tracking eligibility: a Statement, or an Expression that is not a
\* module-scope value
Tracked(h, c) == h[c].stmt \/ ~h[c].modscope

\* the (parent, slot) locations inside the subtree at r
RLocs(h, r) == LET st == Subtree(h, r) IN {ps \in Locs(h) : ps[1] \in st}
RILocs(h, r) ==
  LET st == Subtree(h, r) IN {ps \in ILocs(h) : ps[1] \in st /\ ~h[ps[1]].stmt}

\* the locations of the subtree at r that hold node c
LocsOf(h, r, c) == {ps \in RLocs(h, r) : childAt(h, ps) = c}

\* the tracked nodes attached at more than one location of the subtree at r
Aliased(h, r) ==
  LET rl == RLocs(h, r)
  IN {c \in DOMAIN h : Tracked(h, c)
                        /\ \E a, b \in rl : a # b /\ childAt(h, a) = c /\ childAt(h, b) = c}

InstAliased(h, r) ==
  LET rl == RILocs(h, r) IN \E a, b \in rl : a # b /\ instAt(h, a) = instAt(h, b)

NoAliasing(h, r) == Aliased(h, r) = {} /\ ~InstAliased(h, r)

\* the last step was examine(lastOp.node) on a newly constructed visitor
ExaminedFresh == lastOp.op = "examine" /\ prev.V = FreshV

\* examine returned failure (and did not stop at an assert)
ReturnedFailure == ~lastOp.ret /\ ~aborted

\* the locations visit(node) passes to setParent, and to the instruction setParent
VisitedLocs(h, ctl, node) ==
  IF ctl.visitMode = BatchMode THEN RLocs(h, node)
  ELSE {ps \in Locs(h) : ps[1] = node}
VisitedILocs(h, ctl, node) ==
  IF ctl.visitMode = BatchMode THEN RILocs(h, node)
  ELSE {ps \in ILocs(h) : ps[1] = node /\ ~h[node].stmt}

\* the tracked nodes visit(node) meets at more than one location
VisitedShared(h, ctl, node) ==
  LET vl == VisitedLocs(h, ctl, node)
  IN {c \in DOMAIN h : Tracked(h, c)
                        /\ \E a, b \in vl : a # b /\ childAt(h, a) = c /\ childAt(h, b) = c}

VisitedSharedStmts(h, ctl, node) == {c \in VisitedShared(h, ctl, node) : h[c].stmt}

VisitedInstShared(h, ctl, node) ==
  LET vl == VisitedILocs(h, ctl, node)
  IN \E a, b \in vl : a # b /\ instAt(h, a) = instAt(h, b)

FlavorsIn(h, c, F) == \A m \in Subtree(h, c) : h[m].flavor \in F

HasMult(h, c) ==
  \E m \in Subtree(h, c) : h[m].flavor = "N_BinaryOp" /\ h[m].op = "OPERATOR_MULT"

RECURSIVE ValueEqual(_, _, _)
ValueEqual(h, a, b) ==
  /\ h[a].stmt = h[b].stmt /\ h[a].flavor = h[b].flavor /\ h[a].op = h[b].op
  /\ h[a].modscope = h[b].modscope
  /\ Len(h[a].insts) = Len(h[b].insts)
  /\ Len(h[a].kids) = Len(h[b].kids)
  /\ \A i \in 1 .. Len(h[a].kids) : ValueEqual(h, h[a].kids[i], h[b].kids[i])

\* the only sharing in the subtree at r is of expression subtrees made of
\* constants and variable references
OnlyConstVarShared(h, r) ==
  /\ Aliased(h, r) # {}
  /\ \A c \in Aliased(h, r) : ~h[c].stmt /\ FlavorsIn(h, c, {"N_Const", "N_Var"})
  /\ ~InstAliased(h, r)

\* every two locations of the subtree at r that held the same shared node in
\* h hold distinct, value-equal nodes in hh
SplitAfter(h, hh, r) ==
  \A c \in Aliased(h, r) : \A a, b \in LocsOf(h, r, c) :
     a # b => /\ childAt(hh, a) # childAt(hh, b)
              /\ ValueEqual(hh, childAt(hh, a), childAt(hh, b))

----------------------------------------------------------------------------
(* Claims about one check of a tree by a newly constructed visitor *)

\* C1: on a tree with no aliasing (no tracked node and no instruction
\* attached at more than one location), examine on a new visitor returns
\* success in either mode and under either reporting setting, changes no
\* child slot and leaves the diagnostic log empty.
C1_CleanTreeIsNoOp ==
  (ExaminedFresh /\ NoAliasing(prev.nodes, lastOp.node))
    => (lastOp.ret /\ ~aborted /\ nodes = prev.nodes /\ ss_ = <<>>)

\* reached: a clean tree with a shared module-scope constant, checked in
\* batch mode with reporting on
C1_Witness ==
  /\ ExaminedFresh /\ lastOp.node = 1 /\ lastOp.ret
  /\ control = [visitMode |-> BatchMode, doRepairs |-> ReportRepairableSharing]
  /\ NoAliasing(prev.nodes, 1)
  /\ \E a, b \in Locs(nodes) : a # b /\ childAt(nodes, a) = childAt(nodes, b)
  /\ ss_ = <<>>

\* C2 as stated: sharing a constant/variable subtree under two parents always
\* makes examine succeed, and batch examine leaves the parents with distinct,
\* value-equal nodes -- whatever the reporting setting.
C2_AsStated ==
  (ExaminedFresh /\ control.visitMode = BatchMode
     /\ OnlyConstVarShared(prev.nodes, lastOp.node))
    => (lastOp.ret /\ SplitAfter(prev.nodes, nodes, lastOp.node))

\* C2 amended: with reporting of repairable sharing suppressed, sharing a
\* constant/variable subtree under two parents makes batch examine succeed
\* and leaves the parents with distinct, value-equal nodes.
C2_ConstVarSharingRepaired ==
  (ExaminedFresh /\ control.visitMode = BatchMode
     /\ control.doRepairs = DontReportRepairableSharing
     /\ OnlyConstVarShared(prev.nodes, lastOp.node))
    => (lastOp.ret /\ ~aborted /\ SplitAfter(prev.nodes, nodes, lastOp.node))

\* reached: scenario A repaired -- root 1 with children 2 and 3, whose single
\* child was the same constant 4; afterwards 3 holds a clone
C2_Witness ==
  /\ ExaminedFresh /\ lastOp.node = 1 /\ lastOp.ret
  /\ control = [visitMode |-> BatchMode, doRepairs |-> DontReportRepairableSharing]
  /\ prev.nodes[1].kids = <<2, 3>>
  /\ prev.nodes[2].kids = <<4>> /\ prev.nodes[3].kids = <<4>>
  /\ nodes[4].flavor = "N_Const" /\ ~nodes[4].modscope
  /\ nodes[2].kids = <<4>> /\ nodes[3].kids = <<5>>
  /\ ValueEqual(nodes, 4, 5)

\* C3 as stated: a Statement attached at two locations that one pass visits
\* makes examine fail and no slot is rewired, whatever the statement's content.
C3_AsStated ==
  (ExaminedFresh /\ VisitedSharedStmts(prev.nodes, control, lastOp.node) # {})
    => (ReturnedFailure /\ nodes = prev.nodes)

\* C3 amended: a Statement that is not of error-sentinel flavor, attached at
\* two locations that one pass visits, makes examine fail and no slot is
\* rewired, whatever the reporting setting.
C3_StmtSharingFails ==
  (ExaminedFresh
     /\ \E c \in VisitedSharedStmts(prev.nodes, control, lastOp.node) :
           prev.nodes[c].flavor # "N_Error")
    => (ReturnedFailure /\ nodes = prev.nodes /\ stmtShareCount_ > 0)

\* reached: a failed check that counted a shared statement while a repairable
\* expression conflict sat in the ledger, nothing rewired
C3_Witness ==
  /\ ExaminedFresh /\ ~lastOp.ret /\ ~aborted
  /\ control.doRepairs = DontReportRepairableSharing
  /\ stmtShareCount_ = 1 /\ exprShareCount_ = 0 /\ instShareCount_ = 0
  /\ \E ps \in sharing_ : ~nodes[childAt(nodes, ps)].stmt
  /\ nodes = prev.nodes

\* C4: an instruction handle attached at two (expression, slot) locations
\* that one pass visits makes examine fail and nothing is repaired, even if
\* all expression sharing of the tree is repairable.
C4_InstSharingFails ==
  (ExaminedFresh /\ VisitedInstShared(prev.nodes, control, lastOp.node))
    => (ReturnedFailure /\ nodes = prev.nodes /\ instShareCount_ > 0)

\* reached: a failed check whose only counted conflict is a shared instruction
\* of two different expressions, with a repairable expression conflict pending
C4_Witness ==
  /\ ExaminedFresh /\ ~lastOp.ret /\ ~aborted
  /\ instShareCount_ = 1 /\ stmtShareCount_ = 0 /\ exprShareCount_ = 0
  /\ sharing_ # {}
  /\ ss_[1].wh = "inst" /\ ss_[1].parent1 # ss_[1].parent2
  /\ nodes = prev.nodes

\* C5: if a shared Expression subtree contains a multiplication anywhere,
\* examine fails and every slot still holds the node it held before.
C5_MultSharingNotRepaired ==
  (ExaminedFresh
     /\ \E c \in VisitedShared(prev.nodes, control, lastOp.node) :
           ~prev.nodes[c].stmt /\ HasMult(prev.nodes, c))
    => (ReturnedFailure /\ nodes = prev.nodes /\ exprShareCount_ > 0)

\* reached: reporting suppressed, a shared dereference over a multiplication
\* counted as an expression share, the ledger slot still holding it
C5_Witness ==
  /\ ExaminedFresh /\ ~lastOp.ret /\ ~aborted
  /\ control.doRepairs = DontReportRepairableSharing
  /\ exprShareCount_ = 1
  /\ \E ps \in sharing_ :
       LET c == childAt(nodes, ps)
       IN /\ nodes[c].flavor = "N_Deref" /\ HasMult(nodes, c)
          /\ c \in DOMAIN nparent_ /\ nparent_[c] # ps
          /\ childAt(nodes, nparent_[c]) = c
  /\ nodes = prev.nodes

\* C7 as stated: after a successful batch examine every tracked node
\* reachable from the root, error-sentinel nodes included, is attached at
\* exactly one location.
C7_AsStated ==
  (ExaminedFresh /\ control.visitMode = BatchMode /\ lastOp.ret)
    => Aliased(nodes, lastOp.node) = {}

\* C7 amended: after a successful batch examine every tracked node reachable
\* from the root that is not of error-sentinel flavor is attached at exactly
\* one location.
C7_NoAliasingSurvives ==
  (ExaminedFresh /\ control.visitMode = BatchMode /\ lastOp.ret)
    => \A c \in Aliased(nodes, lastOp.node) : nodes[c].flavor = "N_Error"

\* reached: a successful batch check that repaired nested sharing (a shared
\* node whose own children were shared) and left no node aliased
C7_Witness ==
  /\ ExaminedFresh /\ control.visitMode = BatchMode /\ lastOp.ret /\ lastOp.node = 1
  /\ \E c, d \in Aliased(prev.nodes, 1) : c # d /\ d \in Subtree(prev.nodes, c)
  /\ Aliased(nodes, 1) = {}

\* the nodes of the subtree at r that a successful batch check has repaired
Repaired(h, r) == {c \in Aliased(h, r) : h[c].flavor # "N_Error"}

\* C8: after a successful repair of a node shared at k >= 2 locations, the
\* original is attached at the location recorded first in the tracker and at
\* no other, and each of the other k-1 locations holds its own clone, distinct
\* from the original and from the other clones.
C8_OriginalStaysClonesElsewhere ==
  (ExaminedFresh /\ control.visitMode = BatchMode /\ lastOp.ret)
    => \A c \in Repaired(prev.nodes, lastOp.node) :
         LET L == LocsOf(prev.nodes, lastOp.node, c)
         IN /\ c \in DOMAIN nparent_
            /\ nparent_[c] \in L
            /\ LocsOf(nodes, lastOp.node, c) = {nparent_[c]}
            /\ \A b \in L \ {nparent_[c]} : childAt(nodes, b) \notin DOMAIN prev.nodes
            /\ \A a, b \in L : a # b => childAt(nodes, a) # childAt(nodes, b)

\* reached: a node shared at three locations, repaired with two clones
C8_Witness ==
  /\ ExaminedFresh /\ control.visitMode = BatchMode /\ lastOp.ret
  /\ \E c \in Repaired(prev.nodes, lastOp.node) :
       /\ Cardinality(LocsOf(prev.nodes, lastOp.node, c)) = 3
       /\ Len(nodes) = Len(prev.nodes) + 2
       /\ LocsOf(nodes, lastOp.node, c) = {nparent_[c]}

----------------------------------------------------------------------------
(* Claims about recording and removing single edges *)

Untracked(h) == {n \in DOMAIN h : ~Tracked(h, n)}

\* C6: a module-scope Expression value, however many locations reference it,
\* never has a Parent Tracker entry, never has a Sharing Ledger entry (no
\* ledger location holds it) and never appears in the diagnostic log; and
\* setParent and unsetParent on it change no field of the visitor, so no
\* counter is incremented.
C6_ModuleScopeNeverTracked ==
  /\ \A n \in Untracked(nodes) :
       /\ n \notin DOMAIN nparent_
       /\ \A ps \in sharing_ : childAt(nodes, ps) # n
       /\ \A i \in 1 .. Len(ss_) :
            ss_[i].wh = "inst" \/ n \notin {ss_[i].child, ss_[i].parent1, ss_[i].parent2}
  /\ (lastOp.op \in {"setParent", "unsetParent"} /\ ~Tracked(nodes, lastOp.child))
       => (VState = prev.V /\ nodes = prev.nodes)

\* reached: a module-scope constant held by two slots, its edge recorded at
\* one and then recorded again at the other, with no field changed
C6_Witness ==
  /\ lastOp.op = "setParent" /\ ~Tracked(nodes, lastOp.child)
  /\ calls = 2
  /\ \E ps \in Locs(nodes) :
       ps # <<lastOp.parent, lastOp.slot>> /\ childAt(nodes, ps) = lastOp.child
  /\ VState = FreshV

----------------------------------------------------------------------------
(* Claims about the classifier *)

\* the flavors the spec lists as clone-safe
Whitelisted(h, m) ==
  \/ h[m].flavor \in {"N_Const", "N_Var", "N_Conversion", "N_Deref", "N_StructField"}
  \/ h[m].flavor = "N_BinaryOp" /\ h[m].op \in {"OPERATOR_PLUS", "OPERATOR_MINUS"}

AllWhitelisted(h, c) == \A m \in Subtree(h, c) : Whitelisted(h, m)

\* some node below root is reachable along two paths
SharedInside(h, root) ==
  \E a, b \in RLocs(h, root) : a # b /\ childAt(h, a) = childAt(h, b)

\* C9: repairableSubTree(root) is true iff every node reachable from root is
\* a constant, variable reference, conversion, dereference, struct-field
\* access, or a binary addition or subtraction; and it is what the classifier
\* returns for the same subtree with nothing shared (its deep clone).
C9_ClassifierIsWhitelist ==
  lastOp.op = "repairableSubTree"
    => /\ lastOp.ret = AllWhitelisted(nodes, lastOp.node)
       /\ LET c == cloneSubtree(nodes, 0, lastOp.node)
          IN lastOp.ret = repairableSubTree(c.h, c.id)

\* reached: a subtraction over a twice-used struct-field access of a variable
\* classified repairable
C9_Witness ==
  /\ lastOp.op = "repairableSubTree" /\ lastOp.ret /\ lastOp.node = 1
  /\ nodes[1].flavor = "N_BinaryOp" /\ nodes[1].op = "OPERATOR_MINUS"
  /\ nodes[1].kids = <<2, 2>>
  /\ nodes[2].flavor = "N_StructField" /\ nodes[2].kids = <<3>>
  /\ SharedInside(nodes, 1)

----------------------------------------------------------------------------
(* Claims about several passes over one tree *)

\* all sharing the pass from node meets is of whitelisted expression subtrees
OnlyRepairableVisited(h, ctl, node) ==
  /\ VisitedShared(h, ctl, node) # {}
  /\ \A c \in VisitedShared(h, ctl, node) : ~h[c].stmt /\ AllWhitelisted(h, c)
  /\ ~VisitedInstShared(h, ctl, node)

Incremental == [visitMode |-> IncrementalMode, doRepairs |-> DontReportRepairableSharing]
Batch == [visitMode |-> BatchMode, doRepairs |-> DontReportRepairableSharing]

\* C10: with whitelisted expression sharing present and reporting suppressed,
\* an incremental examine returns success, rewires no slot and leaves the
\* ledger empty; a batch examine of the tree by a new visitor meets the
\* sharing again and repairs it with clones.
C10_IncrementalDefersBatchRepairs ==
  /\ (ExaminedFresh /\ control = Incremental
        /\ OnlyRepairableVisited(prev.nodes, control, lastOp.node))
       => (lastOp.ret /\ ~aborted /\ nodes = prev.nodes /\ sharing_ = {}
             /\ VisitedShared(nodes, control, lastOp.node) # {})
  /\ (ExaminedFresh /\ control = Batch
        /\ OnlyRepairableVisited(prev.nodes, control, lastOp.node))
       => (lastOp.ret /\ ~aborted /\ sharing_ = {}
             /\ SplitAfter(prev.nodes, nodes, lastOp.node)
             /\ Len(nodes) > Len(prev.nodes))

\* reached: scenario C -- an incremental check of node 2, whose two slots hold
\* the same whitelisted node, succeeded without a clone; the batch check of
\* root 1 by a new visitor then cloned it
C10_Witness ==
  /\ Len(passes) = 2
  /\ passes[1] = [control |-> Incremental, node |-> 2, ret |-> TRUE]
  /\ passes[2] = [control |-> Batch, node |-> 1, ret |-> TRUE]
  /\ prev.V = FreshV
  /\ Len(prev.nodes) = MaxPassNodes
  /\ prev.nodes[2].kids = <<3, 3>>
  /\ nodes[2].kids[1] = 3 /\ nodes[2].kids[2] > MaxPassNodes
  /\ ValueEqual(nodes, nodes[2].kids[1], nodes[2].kids[2])

----------------------------------------------------------------------------
(* Claims about reporting of repairable sharing *)

BatchReport == [visitMode |-> BatchMode, doRepairs |-> ReportRepairableSharing]

\* the diagnostics of the log that name child c as an expression with
\* multiple parents
ExprDiagsOf(c) == {i \in 1 .. Len(ss_) : ss_[i].wh = "expr" /\ ss_[i].child = c}

\* C11 as stated: when reporting of repairable sharing is not suppressed,
\* whitelisted expression sharing is logged and batch examine still repairs
\* it: the conflicting slot ends up holding a clone.
C11_AsStated ==
  (ExaminedFresh /\ control = BatchReport
     /\ OnlyRepairableVisited(prev.nodes, control, lastOp.node))
    => (ss_ # <<>> /\ lastOp.ret /\ SplitAfter(prev.nodes, nodes, lastOp.node))

\* C11 amended: when reporting of repairable sharing is not suppressed,
\* whitelisted expression sharing is logged and counted as an expression
\* share, batch examine returns failure and no slot is rewired to a clone.
C11_ReportedSharingFails ==
  (ExaminedFresh /\ control = BatchReport
     /\ OnlyRepairableVisited(prev.nodes, control, lastOp.node))
    => /\ \A c \in VisitedShared(prev.nodes, control, lastOp.node) : ExprDiagsOf(c) # {}
       /\ exprShareCount_ = Len(ss_) /\ exprShareCount_ = Cardinality(sharing_)
       /\ exprShareCount_ > 0
       /\ ReturnedFailure
       /\ nodes = prev.nodes

\* reached: scenario D with reporting on -- dereferences of a variable
\* attached under both slots of the root; logged, not repaired
C11_Witness ==
  /\ ExaminedFresh /\ control = BatchReport /\ lastOp.node = 1
  /\ prev.nodes[1].kids = <<2, 2>>
  /\ nodes[2].flavor = "N_Deref" /\ FlavorsIn(nodes, 2, {"N_Deref", "N_Var"})
  /\ nodes[4].flavor = "N_Var" /\ ~nodes[4].modscope
  /\ ~InstAliased(nodes, 1)
  /\ ss_ = <<Diag("expr", 2, 1, 1)>>
  /\ ~lastOp.ret /\ nodes = prev.nodes

----------------------------------------------------------------------------
(* Claims about repair taken step by step *)

\* the stepwise examine ends as the examine operator computes it
StepwiseAgrees ==
  lastOp.op = "examine"
    => LET r == examine(prev.nodes, prev.ni, control, prev.V, lastOp.node)
       IN aborted \/ (r.ret = lastOp.ret /\ r.V = VState /\ r.h = nodes)

\* C12: while repair runs the checker's enabled flag is false, and when
\* repair returns, with success or with an early classification failure, the
\* flag has the value it had immediately before repair started.
C12_FlagOffDuringRepairThenRestored ==
  /\ frame.active => ~checksEnabled
  /\ (lastOp.op = "repair" \/ (lastOp.op = "examine" /\ lastOp.repaired))
       => (frame.active \/ checksEnabled = prev.enabled)

\* reached: repair returned early with a classification failure and the flag,
\* true before repair, is true again
C12_WitnessEarlyFailure ==
  /\ lastOp.op = "examine" /\ lastOp.repaired /\ ~lastOp.ret
  /\ ~frame.active /\ ~aborted
  /\ prev.enabled /\ checksEnabled

\* reached: repair is in progress with one entry processed; the flag is off
C12_WitnessDuring ==
  /\ frame.active /\ frame.visited # {} /\ frame.todo # {}
  /\ prev.enabled /\ ~checksEnabled

\* reached: repair of the tree as built cloned two entries and returned
\* success; the flag, false before, is false
C12_Witness ==
  /\ lastOp.op = "examine" /\ lastOp.repaired /\ lastOp.ret
  /\ Len(prev.nodes) = MaxRepairNodes /\ Len(nodes) >= MaxRepairNodes + 2
  /\ ~prev.enabled /\ ~checksEnabled

----------------------------------------------------------------------------
(* Claims about single calls of setParent, unsetParent and the instruction  *)
(* setParent                                                                *)

\* the last step was setParent(child, parent, slot) of a tracked child
SetParentOfTracked == lastOp.op = "setParent" /\ Tracked(nodes, lastOp.child)
LastLoc == <<lastOp.parent, lastOp.slot>>

\* C13: each tracked node has at most one tracker entry, the location of its
\* first sighting: setParent records the location of a child without an
\* entry, and a later setParent of the child at any location leaves the
\* tracker as it was.
C13_FirstSightingKept ==
  /\ \A c \in DOMAIN nparent_ : Tracked(nodes, c) /\ childAt(nodes, nparent_[c]) = c
  /\ SetParentOfTracked
       => IF lastOp.child \in DOMAIN prev.V.nparent
          THEN nparent_ = prev.V.nparent
          ELSE /\ DOMAIN nparent_ = DOMAIN prev.V.nparent \cup {lastOp.child}
               /\ nparent_[lastOp.child] = LastLoc
               /\ \A c \in DOMAIN prev.V.nparent : nparent_[c] = prev.V.nparent[c]

\* reached: a node attached at three locations, recorded at each in turn;
\* the entry is still the first location
C13_Witness ==
  /\ SetParentOfTracked /\ calls = 3
  /\ Cardinality(sharing_) = 2 /\ LastLoc \in sharing_
  /\ \A ps \in sharing_ : childAt(nodes, ps) = lastOp.child
  /\ nparent_[lastOp.child] \notin sharing_

\* C14: unsetParent(child, parent, slot) erases the tracker entry of child
\* only if the recorded entry equals (parent, slot) in both components; an
\* entry that differs in parent or in slot is preserved.
C14_AsStated ==
  (lastOp.op = "unsetParent" /\ Tracked(nodes, lastOp.child) /\ ~aborted)
    => IF prev.V.nparent[lastOp.child] = LastLoc
       THEN nparent_ = MapErase(prev.V.nparent, lastOp.child)
       ELSE nparent_ = prev.V.nparent

----------------------------------------------------------------------------
(* Claims about state kept from one pass to the next *)

Counted(V) == V.instShareCount # 0 \/ V.stmtShareCount # 0 \/ V.exprShareCount # 0

\* C15 as stated: the counters are reset at the start of each examine and no
\* tracker, ledger or counter state persists from one examine to the next:
\* the result and the counters of an examine call are those of the same call
\* on a visitor with no earlier examine.
C15_AsStated ==
  lastOp.op = "examine"
    => LET r == examine(prev.nodes, numInsts, control, FreshV, lastOp.node)
       IN /\ lastOp.ret = r.ret
          /\ instShareCount_ = r.V.instShareCount
          /\ stmtShareCount_ = r.V.stmtShareCount
          /\ exprShareCount_ = r.V.exprShareCount

\* C15 amended: examine does not reset the counters, and tracker and counter
\* state persists from one examine to the next on the same visitor: a call
\* that starts with a non-zero counter returns failure whatever it visits and
\* rewires no slot, no call lowers a counter, and no call changes or removes
\* an existing tracker entry.
C15_StatePersistsAcrossPasses ==
  lastOp.op = "examine"
    => /\ Counted(prev.V) => (~lastOp.ret /\ nodes = prev.nodes)
       /\ instShareCount_ >= prev.V.instShareCount
       /\ stmtShareCount_ >= prev.V.stmtShareCount
       /\ exprShareCount_ >= prev.V.exprShareCount
       /\ \A c \in DOMAIN prev.V.nparent :
            c \in DOMAIN nparent_ /\ nparent_[c] = prev.V.nparent[c]

\* reached: a second examine by the same visitor, of a subtree without any
\* aliasing, returned failure because of a conflict counted by the first
C15_Witness ==
  /\ lastOp.op = "examine" /\ Len(passes) = 2
  /\ ~passes[1].ret /\ ~lastOp.ret /\ ~aborted
  /\ Counted(prev.V) /\ prev.V.nparent # <<>>
  /\ passes[1].node # lastOp.node
  /\ NoAliasing(prev.nodes, lastOp.node)
  /\ Len(ss_) = Len(prev.V.ss)

----------------------------------------------------------------------------
(* Claims about the conflict cases of setParent *)

\* the last step was setParent of a tracked child that has a tracker entry
\* at another location
SetParentElsewhere ==
  /\ SetParentOfTracked
  /\ lastOp.child \in DOMAIN prev.V.nparent
  /\ prev.V.nparent[lastOp.child] # LastLoc

\* the diagnostics of the log about nodes (not instructions)
NodeDiags == {i \in 1 .. Len(ss_) : ss_[i].wh # "inst"}

\* C16: setParent of a conflicting edge whose (parent, slot) is already in
\* the ledger changes nothing, so each conflicting location is counted at
\* most once however often it is walked: the statement and expression
\* counters together never exceed the size of the ledger, and there is one
\* node diagnostic per count.
C16_LedgerDeduplicates ==
  /\ (SetParentElsewhere /\ LastLoc \in prev.V.sharing) => VState = prev.V
  /\ stmtShareCount_ + exprShareCount_ <= Cardinality(sharing_)
  /\ Cardinality(NodeDiags) = stmtShareCount_ + exprShareCount_

\* reached: the same conflicting edge of a statement recorded twice; the
\* second call changed nothing and the counter stands at one
C16_Witness ==
  /\ SetParentElsewhere /\ LastLoc \in prev.V.sharing
  /\ calls = 3
  /\ isStmt(nodes, lastOp.child)
  /\ stmtShareCount_ = 1 /\ Len(ss_) = 1 /\ sharing_ = {LastLoc}

\* the last step was setParent of a new genuine conflict: a tracked child,
\* not an error node, recorded elsewhere, at a location not yet in the ledger
NewConflict ==
  /\ SetParentElsewhere
  /\ nodes[lastOp.child].flavor # "N_Error"
  /\ LastLoc \notin prev.V.sharing

\* C17: on a new conflict setParent adds (parent, slot) to the ledger; if
\* reporting of repairable sharing is suppressed and the child is an
\* Expression whose whole subtree is whitelisted, no counter is incremented
\* and nothing is logged; otherwise exactly one of the statement and
\* expression counters goes up by one (the statement counter iff the child is
\* a Statement) and one diagnostic naming the child and both parents is
\* logged.
C17_SuppressedOrCounted ==
  NewConflict
    => LET c == lastOp.child
           V0 == prev.V
       IN /\ sharing_ = V0.sharing \cup {LastLoc}
          /\ nparent_ = V0.nparent /\ iparent_ = V0.iparent
          /\ instShareCount_ = V0.instShareCount
          /\ IF control.doRepairs = DontReportRepairableSharing
                /\ ~nodes[c].stmt /\ AllWhitelisted(nodes, c)
             THEN /\ stmtShareCount_ = V0.stmtShareCount
                  /\ exprShareCount_ = V0.exprShareCount
                  /\ ss_ = V0.ss
             ELSE /\ stmtShareCount_ = V0.stmtShareCount + (IF nodes[c].stmt THEN 1 ELSE 0)
                  /\ exprShareCount_ = V0.exprShareCount + (IF nodes[c].stmt THEN 0 ELSE 1)
                  /\ Len(ss_) = Len(V0.ss) + 1
                  /\ \A i \in 1 .. Len(V0.ss) : ss_[i] = V0.ss[i]
                  /\ ss_[Len(ss_)] = [wh |-> IF nodes[c].stmt THEN "stmt" ELSE "expr",
                                      child |-> c, parent1 |-> V0.nparent[c][1],
                                      parent2 |-> lastOp.parent]

\* reached: with reporting on, a whitelisted expression met at a second
\* location is counted as an expression share and logged
C17_Witness ==
  /\ NewConflict /\ control.doRepairs = ReportRepairableSharing
  /\ ~nodes[lastOp.child].stmt /\ AllWhitelisted(nodes, lastOp.child)
  /\ exprShareCount_ = 1 /\ stmtShareCount_ = 0 /\ Len(ss_) = 1
  /\ sharing_ = {LastLoc}

\* reached: with reporting suppressed, the same conflict only enters the ledger
C17_WitnessSuppressed ==
  /\ NewConflict /\ control.doRepairs = DontReportRepairableSharing
  /\ ~nodes[lastOp.child].stmt /\ AllWhitelisted(nodes, lastOp.child)
  /\ exprShareCount_ = 0 /\ ss_ = <<>> /\ sharing_ = {LastLoc}

\* all sharing the pass from node meets is of error-flavored nodes
OnlyErrorVisited(h, ctl, node) ==
  /\ VisitedShared(h, ctl, node) # {}
  /\ \A c \in VisitedShared(h, ctl, node) : h[c].flavor = "N_Error"
  /\ ~VisitedInstShared(h, ctl, node)

\* C18: setParent of an error-flavored child that has a tracker entry at a
\* different location changes nothing (tracker, ledger, counters, log); so a
\* check that meets no other sharing than that of error nodes returns success
\* and rewires no slot.
C18_ErrorNodeSharingIgnored ==
  /\ (SetParentElsewhere /\ nodes[lastOp.child].flavor = "N_Error") => VState = prev.V
  /\ (ExaminedFresh /\ OnlyErrorVisited(prev.nodes, control, lastOp.node))
       => (lastOp.ret /\ ~aborted /\ nodes = prev.nodes /\ ss_ = <<>>
             /\ sharing_ = {})

\* reached: an error node recorded at one location and then at another; the
\* second call changed nothing
C18_Witness ==
  /\ SetParentElsewhere /\ nodes[lastOp.child].flavor = "N_Error"
  /\ calls = 2
  /\ nparent_[lastOp.child] # LastLoc
  /\ sharing_ = {} /\ ss_ = <<>>

\* reached: a batch check of a tree sharing an error expression succeeded
\* and left it shared
C18_WitnessExamine ==
  /\ ExaminedFresh /\ control.visitMode = BatchMode /\ lastOp.node = 1 /\ lastOp.ret
  /\ OnlyErrorVisited(prev.nodes, control, 1)
  /\ Aliased(nodes, 1) # {}

----------------------------------------------------------------------------
(* Claims about the instruction setParent *)

\* C19: the instruction setParent records (parent, slot) on the first
\* sighting of an instruction, changes nothing when the same (parent, slot)
\* is seen again, and on every call with a different (parent, slot)
\* increments the instruction counter by one and logs one diagnostic, leaving
\* the recorded entry as it was: there is no deduplication and no
\* suppression.
C19_InstructionEdges ==
  lastOp.op = "setParentInst"
    => LET V0 == prev.V
           i == lastOp.inst
       IN /\ nparent_ = V0.nparent /\ sharing_ = V0.sharing
          /\ stmtShareCount_ = V0.stmtShareCount
          /\ exprShareCount_ = V0.exprShareCount
          /\ IF i \notin DOMAIN V0.iparent
             THEN /\ DOMAIN iparent_ = DOMAIN V0.iparent \cup {i}
                  /\ iparent_[i] = LastLoc
                  /\ \A j \in DOMAIN V0.iparent : iparent_[j] = V0.iparent[j]
                  /\ instShareCount_ = V0.instShareCount /\ ss_ = V0.ss
             ELSE IF V0.iparent[i] = LastLoc
             THEN VState = V0
             ELSE /\ iparent_ = V0.iparent
                  /\ instShareCount_ = V0.instShareCount + 1
                  /\ Len(ss_) = Len(V0.ss) + 1
                  /\ \A k \in 1 .. Len(V0.ss) : ss_[k] = V0.ss[k]
                  /\ ss_[Len(ss_)] = [wh |-> "inst", child |-> i,
                                      parent1 |-> V0.iparent[i][1],
                                      parent2 |-> lastOp.parent]

\* reached: an instruction recorded at one slot and then twice at another;
\* the second slot was counted both times
C19_Witness ==
  /\ lastOp.op = "setParentInst" /\ calls = 3
  /\ instShareCount_ = 2 /\ Len(ss_) = 2 /\ ss_[1] = ss_[2]
  /\ prev.V.instShareCount = 1
  /\ iparent_[lastOp.inst] # LastLoc
  /\ Cardinality(DOMAIN iparent_) = 1

----------------------------------------------------------------------------
(* Claims about a repair that fails part-way *)

\* location a comes before location b in the ledger
Precedes(a, b) == a[1] < b[1] \/ (a[1] = b[1] /\ a[2] < b[2])

\* the ledger entries whose child, when repair started, was not whitelisted
Unrepairable(h) == {ps \in sharing_ : ~AllWhitelisted(h, childAt(h, ps))}

\* repair ran and returned failure
RepairFailed == lastOp.op = "examine" /\ lastOp.repaired /\ ~lastOp.ret

\* C20: if repair meets a ledger entry that fails classification after
\* earlier entries were processed, it returns failure, the slots rewired
\* before the failure keep their clones (no rollback), every other slot is as
\* it was, and the ledger and the expression counter are left as they were,
\* not cleared.
C20_PartialRepairKept ==
  RepairFailed
    => /\ Unrepairable(prev.nodes) # {}
       /\ prev.V.sharing \subseteq sharing_
       /\ exprShareCount_ = prev.V.exprShareCount
       /\ \E f \in Unrepairable(prev.nodes) :
            /\ \A g \in Unrepairable(prev.nodes) \ {f} : Precedes(f, g)
            /\ \A ps \in Locs(prev.nodes) :
                 IF ps \in sharing_ /\ Precedes(ps, f)
                 THEN /\ childAt(nodes, ps) \notin DOMAIN prev.nodes
                      /\ childAt(nodes, ps) # childAt(prev.nodes, ps)
                      /\ ValueEqual(nodes, childAt(nodes, ps), childAt(prev.nodes, ps))
                 ELSE childAt(nodes, ps) = childAt(prev.nodes, ps)

\* reached: the ledger held two entries; repair cloned the constant at the
\* first and failed at the second, where the front end had installed a call;
\* the clone is still in place and the ledger still holds both entries
C20_Witness ==
  /\ RepairFailed /\ ~aborted /\ ~frame.active
  /\ Cardinality(sharing_) = 2
  /\ Len(nodes) = Len(prev.nodes) + 1
  /\ \E a, b \in sharing_ :
       /\ Precedes(a, b)
       /\ childAt(nodes, a) = Len(nodes)
       /\ nodes[childAt(prev.nodes, a)].flavor = "N_Const"
       /\ nodes[childAt(nodes, b)].flavor = "N_Call"

----------------------------------------------------------------------------
(* Claims about the order and extent of the traversal *)

\* the edges visit(node) registers, in order: for each child in turn the
\* edges of its subtree (batch mode only) and then the edge to it, and last
\* the instructions of node
RECURSIVE EdgeOrder(_, _, _)
EdgeOrder(h, mode, node) ==
  LET RECURSIVE kidEdges(_)
      kidEdges(idx) ==
        IF idx >= Len(h[node].kids) THEN <<>>
        ELSE (IF mode = BatchMode THEN EdgeOrder(h, mode, h[node].kids[idx + 1])
              ELSE <<>>)
             \o <<[inst |-> FALSE, parent |-> node, slot |-> idx]>>
             \o kidEdges(idx + 1)
      instEdges == [j \in 1 .. Len(h[node].insts) |->
                      [inst |-> TRUE, parent |-> node, slot |-> j - 1]]
  IN kidEdges(0) \o (IF h[node].stmt THEN <<>> ELSE instEdges)

\* the visitor fields after registering the edges es one after the other
RECURSIVE RecordAll(_, _, _, _)
RecordAll(h, ctl, V, es) ==
  IF es = <<>> THEN V
  ELSE LET e == Head(es)
           ps == <<e.parent, e.slot>>
           W == IF e.inst THEN setParentInst(V, instAt(h, ps), e.parent, e.slot)
                ELSE setParent(h, ctl, V, childAt(h, ps), e.parent, e.slot)
       IN RecordAll(h, ctl, W, Tail(es))

DirectLocs(h, node) == {ps \in Locs(h) : ps[1] = node}

\* C21: in incremental mode examine(node) registers only node's direct child
\* edges and node's own instructions: no tracker entry, ledger entry, count
\* or diagnostic comes from a deeper edge; in batch mode every child edge and
\* instruction edge reachable from node is registered, each child's subtree
\* before the edge from its parent.
C21_TraversalExtentAndOrder ==
  ExaminedFresh
    => LET h == prev.nodes
           n == lastOp.node
           F == RecordAll(h, control, prev.V, EdgeOrder(h, control.visitMode, n))
       IN /\ nparent_ = F.nparent /\ iparent_ = F.iparent /\ ss_ = F.ss
          /\ instShareCount_ = F.instShareCount
          /\ stmtShareCount_ = F.stmtShareCount
          /\ ~lastOp.ret => (exprShareCount_ = F.exprShareCount /\ sharing_ = F.sharing)
          /\ IF control.visitMode = IncrementalMode
             THEN /\ \A c \in DOMAIN nparent_ : nparent_[c][1] = n
                  /\ \A i \in DOMAIN iparent_ : iparent_[i][1] = n
                  /\ sharing_ \subseteq DirectLocs(h, n)
                  /\ \A k \in 1 .. Len(ss_) : ss_[k].parent1 = n /\ ss_[k].parent2 = n
             ELSE /\ DOMAIN nparent_ =
                       {c \in {childAt(h, ps) : ps \in RLocs(h, n)} : Tracked(h, c)}
                  /\ DOMAIN iparent_ = {instAt(h, ps) : ps \in RILocs(h, n)}

\* reached: an incremental check of root 1 succeeded although a statement
\* deeper in the tree is shared; only the root's children were recorded
C21_Witness ==
  /\ ExaminedFresh /\ control.visitMode = IncrementalMode
  /\ lastOp.node = 1 /\ lastOp.ret
  /\ \E c \in Aliased(nodes, 1) : nodes[c].stmt /\ nodes[c].flavor # "N_Error"
  /\ DOMAIN nparent_ = {childAt(nodes, ps) : ps \in DirectLocs(nodes, 1)}
  /\ sharing_ = {} /\ ss_ = <<>>

\* reached: a batch check logged the sharing inside a child before the
\* sharing of the child itself
C21_WitnessOrder ==
  /\ ExaminedFresh /\ control.visitMode = BatchMode /\ lastOp.node = 1
  /\ Len(ss_) = 2
  /\ ss_[1].parent2 = 2 /\ ss_[2].child = 2 /\ ss_[2].parent2 = 1

----------------------------------------------------------------------------
(* Claims about checks that fail *)

CountedNow == instShareCount_ # 0 \/ stmtShareCount_ # 0 \/ exprShareCount_ # 0

\* C22: starting from a new visitor, every examine that returns failure
\* leaves every child slot unchanged: repair is reached only with all three
\* counters zero, when every ledger slot holds a repairable expression, so it
\* never fails classification (a failure always shows a non-zero counter),
\* never stops at assert(child), and the tree is never left partly repaired.
C22_FailureLeavesTreeUnchanged ==
  lastOp.op = "examine"
    => /\ ~aborted
       /\ ~lastOp.ret => (nodes = prev.nodes /\ CountedNow)
       /\ nodes # prev.nodes
            => (lastOp.ret /\ ~CountedNow /\ sharing_ = {}
                  /\ \A n \in DOMAIN nodes \ DOMAIN prev.nodes : AllWhitelisted(nodes, n))

\* reached: a batch check met a repairable shared constant and a shared
\* statement; it failed with both locations in the ledger and no clone made
C22_Witness ==
  /\ ExaminedFresh /\ control = Batch /\ ~lastOp.ret
  /\ Cardinality(sharing_) >= 2
  /\ \E ps \in sharing_ : /\ ~nodes[childAt(nodes, ps)].stmt
                          /\ AllWhitelisted(nodes, childAt(nodes, ps))
  /\ stmtShareCount_ = 1 /\ exprShareCount_ = 0
  /\ nodes = prev.nodes

----------------------------------------------------------------------------
(* Claims about checking a checked tree again *)

\* the last step was a batch examine by a visitor without state, of the node
\* that the batch examine before it checked with success
SecondBatchPass ==
  /\ lastOp.op = "examine" /\ prev.V = FreshV
  /\ Len(passes) >= 2
  /\ control.visitMode = BatchMode
  /\ LET p == passes[Len(passes) - 1]
     IN p.control.visitMode = BatchMode /\ p.ret /\ p.node = lastOp.node

\* C23: batch examine is idempotent on its own output: after a successful
\* examine(root, Batch), with or without repairs, a second examine(root,
\* Batch) by a visitor without state returns success, finds an empty ledger
\* and changes no child slot; and after any successful repair the ledger is
\* empty and the expression counter zero.
C23_BatchIdempotent ==
  /\ SecondBatchPass
       => (lastOp.ret /\ ~aborted /\ nodes = prev.nodes /\ sharing_ = {}
             /\ ss_ = <<>>)
  /\ (lastOp.op = "examine" /\ nodes # prev.nodes)
       => (lastOp.ret /\ sharing_ = {} /\ exprShareCount_ = 0)

\* reached: the first batch check cloned two ledger entries; the batch check
\* of the same root by a new visitor then succeeded and changed nothing
C23_Witness ==
  /\ SecondBatchPass /\ lastOp.node = 1 /\ lastOp.ret
  /\ Len(nodes) >= MaxPassNodes + 2
  /\ Len(prev.nodes) = Len(nodes)
  /\ nparent_ # <<>>

----------------------------------------------------------------------------
(* Claims about edges recorded and removed in any order *)

\* every unsetParent of the log removed an edge that was recorded and not yet
\* removed
PairedLog(log) ==
  \A k \in 1 .. Len(log) :
     log[k].op = "unsetParent" => log[k].loc \in AttachedAfter(log, k - 1)

LedgerApartFromTracker ==
  \A ps \in sharing_ :
     LET c == childAt(nodes, ps)
     IN c \in DOMAIN nparent_ => nparent_[c] # ps

\* a repair has left every recorded child in its recorded slot
RepairKeepsRecorded ==
  (lastOp.op = "examine" /\ nodes # prev.nodes)
    => \A c \in DOMAIN nparent_ : childAt(nodes, nparent_[c]) = c

\* C24 as stated: after any interleaving of setParent and unsetParent calls
\* on one visitor, no ledger entry (p, s) equals the tracker entry recorded
\* for the child currently at slot s of p; hence repair never replaces a node
\* at its recorded attachment and never leaves the original node without a
\* parent.
C24_AsStated ==
  /\ LedgerApartFromTracker
  /\ RepairKeepsRecorded

\* C25 as stated: in a sequence of calls in which every unsetParent(child,
\* parent, slot) of a tracked child is preceded by a setParent of that same
\* edge, the assertion of unsetParent that child has a tracker entry holds,
\* also when child was under two parents and both detach it.
C25_AsStated ==
  PairedLog(passes) => ~aborted

----------------------------------------------------------------------------
(* Claims about termination *)

Occurrences(q, x) == Cardinality({i \in 1 .. Len(q) : q[i] = x})

\* the classifier has popped no node twice, and only nodes of the subtree
PoppedOnce ==
  (frame.active \/ lastOp.op = "repairableSubTree")
    => (frame.kind = "classify"
          => /\ \A x \in NodeIds : Occurrences(frame.popped, x) <= 1
             /\ \A i \in 1 .. Len(frame.popped) :
                   frame.popped[i] \in Subtree(nodes, frame.node))

\* the stepped examine has returned what examine computes
WalkAgrees ==
  lastOp.op = "examine"
    => LET r == examine(prev.nodes, MaxInsts, control, prev.V, lastOp.node)
       IN r.h = nodes /\ r.V = VState /\ r.ret = lastOp.ret /\ r.ni = numInsts

\* C26: examine terminates on every finite acyclic node graph in both modes,
\* however many nodes are shared, and repairableSubTree terminates on every
\* finite subtree also when nodes inside it are shared, visiting each
\* distinct node at most once: a call that has been entered returns, the
\* classifier pops no node twice, and the examine that returns has computed
\* what examine computes.
C26_Terminates ==
  /\ [](PoppedOnce /\ WalkAgrees)
  /\ (frame.active ~> ~frame.active)

\* reached: the classifier has accepted a subtree of three nodes in which the
\* leaf is the child of both other nodes, after popping each node once
C26_Witness ==
  /\ lastOp.op = "repairableSubTree" /\ lastOp.ret /\ lastOp.node = 1
  /\ ~frame.active /\ Len(frame.popped) = MaxWalkNodes
  /\ \E ps \in Locs(nodes), qs \in Locs(nodes) :
        ps[1] # qs[1] /\ childAt(nodes, ps) = childAt(nodes, qs)

\* reached: a batch examine has returned after entering visit for a node
\* once per path that leads to it
C26_WitnessShared ==
  /\ lastOp.op = "examine" /\ control.visitMode = BatchMode /\ ~frame.active
  /\ frame.kind = "visit"
  /\ \E x \in NodeIds : Occurrences(frame.entered, x) >= 4

=============================================================================
